---------------------------- MODULE Spec2Model ----------------------------
(***************************************************************************)
(* Model of the label extractors of azzas-hangtags:                        *)
(*   src/app.py             SKU pipeline (one single-page PDF per SKU)     *)
(*   src/crop_carton_app.py REFERENCIA pipeline (one PDF per REFERENCIA)   *)
(*                                                                         *)
(* Conventions.                                                            *)
(*  - A Python str is a sequence of characters, each a string: itself     *)
(*    when it is printable ASCII (but the backquote) or one of \t \n \f   *)
(*    \r, and "U+XXXX" (its code point in hexadecimal) otherwise, e.g.     *)
(*    "U+00A0", "U+0663".                                                  *)
(*  - A Python float is an IEEE 754 double <<s, m, e>> of value            *)
(*    s * m * 2^e: s is the sign (-1, 0 or 1), m the odd significand as    *)
(*    its base-2^15 digits, lowest first, and e the exponent, e.g.         *)
(*    7.5 = <<1, <<15>>, -1>>, -4.0 = <<-1, <<1>>, 2>>, 0.0 = <<0, <<>>,   *)
(*    0>> and 9.5/3 = <<1, <<21845, 10922, 21845, 202>>, -51>>.  Every     *)
(*    operation rounds as the double operation does.                       *)
(*  - A Python tuple is a TLA+ tuple; a Python list is a sequence; list    *)
(*    indexes (page_index, column index j) keep their 0-based values.      *)
(*  - Python's None is the empty tuple <<>>.                               *)
(***************************************************************************)
EXTENDS Integers, Sequences, FiniteSets, TLC

VARIABLES
    \* --- app.py, "Process PDFs" button handler (lines 304-326)
    uploaded_files, file_idx, all_labels, processed_labels, pc,
    \* --- app.py, process_pdf_bytes page loop (lines 159-256)
    doc, page_index, seen_skus, results, doc_pc,
    \* --- app.py, compute_first_label_clip (lines 20-101)
    clip_page, clip_cols, centers, assignments, rounds, clip_out, clip_pc,
    \* --- app.py, barcode-centred crop (lines 197-226)
    crop_in, final_clip, crop_pc,
    \* --- app.py, find_barcode_word_bbox (lines 120-139)
    words, barcode_info, bc_pc,
    \* --- crop_carton_app.py, detect_crop_rect (lines 36-110)
    detect_args, content_box, adjusted_box, clamped_box,
    \* --- crop_carton_app.py, main (lines 148-230)
    carton_doc, crop_rect, groups, outputs, carton_pc

batchVars  == <<uploaded_files, file_idx, all_labels, processed_labels, pc>>
docVars    == <<doc, page_index, seen_skus, results, doc_pc>>
clipVars   == <<clip_page, clip_cols, centers, assignments, rounds, clip_out, clip_pc>>
cropVars   == <<crop_in, final_clip, crop_pc>>
bcVars     == <<words, barcode_info, bc_pc>>
cartonVars == <<detect_args, content_box, adjusted_box, clamped_box,
                carton_doc, crop_rect, groups, outputs, carton_pc>>
vars == <<batchVars, docVars, clipVars, cropVars, bcVars, cartonVars>>

\* Python's None.
None == <<>>

\* The list [f[1], ..., f[n]], built element by element.
RECURSIVE MkSeq(_, _)
MkSeq(f, n) == IF n = 0 THEN <<>> ELSE Append(MkSeq(f, n - 1), f[n])

-----------------------------------------------------------------------------
(* Natural numbers of any size, for the 53-bit significands of doubles:    *)
(* the sequence of base-2^15 digits, lowest first, without leading zeros   *)
(* (<<>> is 0).  Intermediate values are handed on as arguments.           *)

BASE == 32768
LIMB_BITS == 15

RECURSIVE Pow2(_)
Pow2(n) == IF n = 0 THEN 1 ELSE 2 * Pow2(n - 1)

RECURSIVE BTrim(_)
BTrim(a) ==
    IF a # <<>> /\ a[Len(a)] = 0 THEN BTrim(SubSeq(a, 1, Len(a) - 1)) ELSE a

BFromInt(n) ==
    BTrim(<<n % BASE, (n \div BASE) % BASE, n \div (BASE * BASE)>>)

RECURSIVE BAddFrom(_, _, _, _)
BAddFrom(a, b, i, carry) ==
    IF i > Len(a) /\ i > Len(b)
    THEN IF carry = 0 THEN <<>> ELSE <<carry>>
    ELSE LET s == (IF i <= Len(a) THEN a[i] ELSE 0)
                  + (IF i <= Len(b) THEN b[i] ELSE 0) + carry
         IN  <<s % BASE>> \o BAddFrom(a, b, i + 1, s \div BASE)
BAdd(a, b) == BAddFrom(a, b, 1, 0)

\* a - b for a >= b.
RECURSIVE BSubFrom(_, _, _, _)
BSubFrom(a, b, i, borrow) ==
    IF i > Len(a) THEN <<>>
    ELSE LET s == a[i] - (IF i <= Len(b) THEN b[i] ELSE 0) - borrow
         IN  IF s < 0 THEN <<s + BASE>> \o BSubFrom(a, b, i + 1, 1)
                      ELSE <<s>> \o BSubFrom(a, b, i + 1, 0)
BSub(a, b) == BTrim(BSubFrom(a, b, 1, 0))

\* -1, 0 or 1 as a < b, a = b or a > b.
RECURSIVE BCmpFrom(_, _, _)
BCmpFrom(a, b, i) ==
    IF i = 0 THEN 0
    ELSE IF a[i] < b[i] THEN -1
    ELSE IF a[i] > b[i] THEN 1
    ELSE BCmpFrom(a, b, i - 1)
BCmp(a, b) ==
    IF Len(a) < Len(b) THEN -1
    ELSE IF Len(a) > Len(b) THEN 1
    ELSE BCmpFrom(a, b, Len(a))

\* a * k for 0 <= k <= BASE.
RECURSIVE BMulSmallFrom(_, _, _, _)
BMulSmallFrom(a, k, i, carry) ==
    IF i > Len(a)
    THEN IF carry = 0 THEN <<>> ELSE <<carry>>
    ELSE LET p == a[i] * k + carry
         IN  <<p % BASE>> \o BMulSmallFrom(a, k, i + 1, p \div BASE)
BMulSmall(a, k) == IF k = 0 THEN <<>> ELSE BMulSmallFrom(a, k, 1, 0)

RECURSIVE Zeros(_)
Zeros(n) == IF n = 0 THEN <<>> ELSE <<0>> \o Zeros(n - 1)

\* a * 2^n.
BShl(a, n) ==
    IF a = <<>> THEN <<>>
    ELSE Zeros(n \div LIMB_BITS) \o BMulSmallFrom(a, Pow2(n % LIMB_BITS), 1, 0)

\* <<a \div k, a % k>> from digit i of a down, for 0 < k <= BASE, rem being
\* what the digits above i left, as integers; zero digits may lead the
\* quotient.
RECURSIVE BDivSmallFrom(_, _, _, _)
BDivSmallFrom(a, k, i, rem) ==
    IF i = 0 THEN <<<<>>, rem>>
    ELSE LET cur  == rem * BASE + a[i]
             rest == BDivSmallFrom(a, k, i - 1, cur % k)
         IN  <<Append(rest[1], cur \div k), rest[2]>>
BDivSmall(a, k) ==
    LET r == BDivSmallFrom(a, k, Len(a), 0)
    IN  <<BTrim(r[1]), BFromInt(r[2])>>

\* a \div 2^n.
BShr(a, n) ==
    IF n \div LIMB_BITS >= Len(a) THEN <<>>
    ELSE BTrim(BDivSmallFrom(SubSeq(a, (n \div LIMB_BITS) + 1, Len(a)),
                             Pow2(n % LIMB_BITS),
                             Len(a) - (n \div LIMB_BITS), 0)[1])

RECURSIVE IntBits(_)
IntBits(n) == IF n = 0 THEN 0 ELSE 1 + IntBits(n \div 2)
\* The number of binary digits of a.
BBits(a) == IF a = <<>> THEN 0 ELSE LIMB_BITS * (Len(a) - 1) + IntBits(a[Len(a)])

BIsOdd(a) == a # <<>> /\ a[1] % 2 = 1

\* The number of trailing zero bits of a # 0 (k counts those of a[1] that
\* are already shifted out).
RECURSIVE BTrailingZerosFrom(_, _)
BTrailingZerosFrom(a, k) ==
    IF a[1] = 0 THEN LIMB_BITS + BTrailingZerosFrom(Tail(a), 0)
    ELSE IF (a[1] \div Pow2(k)) % 2 = 1 THEN k
    ELSE BTrailingZerosFrom(a, k + 1)
BTrailingZeros(a) == BTrailingZerosFrom(a, 0)

\* a * b, one row of the schoolbook product per digit of b.
RECURSIVE BMulFrom(_, _, _)
BMulFrom(a, b, i) ==
    IF i > Len(b) THEN <<>>
    ELSE BAdd(Zeros(i - 1) \o BMulSmall(a, b[i]), BMulFrom(a, b, i + 1))
BMul(a, b) == IF a = <<>> \/ b = <<>> THEN <<>> ELSE BTrim(BMulFrom(a, b, 1))

\* Long division by a b of two digits or more whose highest digit is
\* BASE/2 or more.  BDivModFrom brings down digit i of a onto the running
\* remainder rem and estimates the quotient digit from the two highest
\* digits; BDivModDigit counts the estimate d down to the largest digit
\* with b * d <= cur and goes on to the next digit.  quot collects the
\* quotient digits.
RECURSIVE BDivModFrom(_, _, _, _, _)
RECURSIVE BDivModDigit(_, _, _, _, _, _)
BDivModFrom(a, b, i, rem, quot) ==
    IF i = 0 THEN <<BTrim(quot), rem>>
    ELSE LET n   == Len(b)
             hi  == IF n <= Len(rem) THEN rem[n] ELSE 0
             lo  == IF n - 1 <= Len(rem) THEN rem[n - 1] ELSE 0
             est == (hi * BASE + lo) \div b[n]
         IN  BDivModDigit(a, b, i, quot, BTrim(<<a[i]>> \o rem),
                          IF est > BASE - 1 THEN BASE - 1 ELSE est)
BDivModDigit(a, b, i, quot, cur, d) ==
    IF BCmp(BMulSmall(b, d), cur) > 0
    THEN BDivModDigit(a, b, i, quot, cur, d - 1)
    ELSE BDivModFrom(a, b, i - 1, BSub(cur, BMulSmall(b, d)), <<d>> \o quot)

\* <<a \div b, a % b>> for b # 0: b of one digit is divided by directly,
\* a longer b after a shift by k bits that brings its highest digit to
\* BASE/2 or more.
BDivModShifted(an, bn, k) ==
    LET r == BDivModFrom(an, bn, Len(an), <<>>, <<>>)
    IN  <<r[1], BShr(r[2], k)>>
BDivMod(a, b) ==
    IF Len(b) = 1 THEN BDivSmall(a, b[1])
    ELSE BDivModShifted(BShl(a, LIMB_BITS - IntBits(b[Len(b)])),
                        BShl(b, LIMB_BITS - IntBits(b[Len(b)])),
                        LIMB_BITS - IntBits(b[Len(b)]))

-----------------------------------------------------------------------------
(* Python floats: IEEE 754 binary64, every operation rounded to nearest,   *)
(* ties to even.  A float is <<s, m, e>> with value s * m * 2^e, s the     *)
(* sign (-1 or 1), m an odd natural below 2^53 in the digit form above;    *)
(* zero is <<0, <<>>, 0>>.  The exponent is not bounded: the magnitudes of *)
(* this program stay far from overflow and from the subnormal range.       *)

MANT_BITS == 53

FZero == <<0, <<>>, 0>>

\* s * m * 2^e with m made odd.
FShifted(s, m, e, tz) == <<s, BShr(m, tz), e + tz>>
FCanon(s, m, e) ==
    IF m = <<>> THEN <<0, <<>>, 0>> ELSE FShifted(s, m, e, BTrailingZeros(m))

\* The significand q2 of MANT_BITS + 1 bits brought to the even neighbour
\* that round-to-nearest, ties-to-even chooses; sticky says that nonzero
\* bits were cut off below q2.  The last bit of q2 is the half: with it and
\* anything below, or with it and an odd bit above it, the value goes up.
FNearest(q2, sticky) ==
    IF ~BIsOdd(q2) THEN q2
    ELSE IF sticky \/ q2[1] % 4 = 3 THEN BAdd(q2, <<1>>)
    ELSE BSub(q2, <<1>>)

\* s * m * 2^e rounded to MANT_BITS bits; cut is the number of bits of m
\* below the half bit (negative when m fits).
FRoundCut(s, m, e, cut) ==
    IF cut < 0 THEN FCanon(s, m, e)
    ELSE FCanon(s, FNearest(BShr(m, cut), BTrailingZeros(m) < cut), e + cut)
FRound(s, m, e) == FRoundCut(s, m, e, BBits(m) - MANT_BITS - 1)
FRoundTriple(r) == FRound(r[1], r[2], r[3])

FInt(i) ==
    IF i < 0 THEN FCanon(-1, BFromInt(-i), 0) ELSE FCanon(1, BFromInt(i), 0)

FNeg(a) == <<-a[1], a[2], a[3]>>
FAbs(a) == <<a[1] * a[1], a[2], a[3]>>

\* The exact sum, as <<s, m, e>> with m not made odd, of sa * ma * 2^e and
\* sb * mb * 2^e, neither zero.
FSumAligned(sa, ma, sb, mb, e) ==
    IF sa = sb THEN <<sa, BAdd(ma, mb), e>>
    ELSE IF ma = mb THEN <<0, <<>>, 0>>
    ELSE IF BCmp(ma, mb) > 0 THEN <<sa, BSub(ma, mb), e>>
    ELSE <<sb, BSub(mb, ma), e>>
FSumExact(a, b) ==
    IF a[1] = 0 THEN b
    ELSE IF b[1] = 0 THEN a
    ELSE LET e == IF a[3] < b[3] THEN a[3] ELSE b[3]
         IN  FSumAligned(a[1], BShl(a[2], a[3] - e), b[1], BShl(b[2], b[3] - e), e)

FAdd(a, b) == FRoundTriple(FSumExact(a, b))
FSub(a, b) == FRoundTriple(FSumExact(a, FNeg(b)))
FMul(a, b) == FRound(a[1] * b[1], BMul(a[2], b[2]), a[3] + b[3])

\* What a float operation returns when it raises instead.
ZeroDivisionError == <<"ZeroDivisionError">>
FRaised(r) == Len(r) = 1

\* a / b: the quotient of the significands, a's shifted left by t bits to
\* give MANT_BITS + 2 bits or more, with one more bit below it that says
\* whether the division left a remainder.
FDivShifted(s, qr, e) ==
    FRound(s, BAdd(BShl(qr[1], 1), IF qr[2] = <<>> THEN <<>> ELSE <<1>>), e)
FDivBy(a, b, t) ==
    FDivShifted(a[1] * b[1], BDivMod(BShl(a[2], t), b[2]), a[3] - b[3] - t - 1)
FDiv(a, b) ==
    IF b[1] = 0 THEN ZeroDivisionError
    ELSE IF a[1] = 0 THEN <<0, <<>>, 0>>
    ELSE FDivBy(a, b, IF MANT_BITS + 3 + BBits(b[2]) > BBits(a[2])
                      THEN MANT_BITS + 3 + BBits(b[2]) - BBits(a[2]) ELSE 0)

\* The sign of a - b.
FCmp(a, b) == FSumExact(a, FNeg(b))[1]
FLt(a, b) == FCmp(a, b) < 0
FLe(a, b) == FCmp(a, b) <= 0
FMax(a, b) == IF FLt(a, b) THEN b ELSE a
FMin(a, b) == IF FLt(b, a) THEN b ELSE a

\* fitz.Rect(x0, y0, x1, y1): stored as given, never normalised.
Rect(x0, y0, x1, y1) == [x0 |-> x0, y0 |-> y0, x1 |-> x1, y1 |-> y1]
RectWidth(r)  == FSub(r.x1, r.x0)
RectHeight(r) == FSub(r.y1, r.y0)

-----------------------------------------------------------------------------
(* Character classes of Python's re and str on str (Unicode) values.       *)

\* [0-9]
AsciiDigits == {"0", "1", "2", "3", "4", "5", "6", "7", "8", "9"}

\* The decimal digits (category Nd, Unicode 14.0) beyond ASCII.
UnicodeDigits ==
    {
      "U+0660", "U+0661", "U+0662", "U+0663", "U+0664", "U+0665", "U+0666", "U+0667",
      "U+0668", "U+0669", "U+06F0", "U+06F1", "U+06F2", "U+06F3", "U+06F4", "U+06F5",
      "U+06F6", "U+06F7", "U+06F8", "U+06F9", "U+07C0", "U+07C1", "U+07C2", "U+07C3",
      "U+07C4", "U+07C5", "U+07C6", "U+07C7", "U+07C8", "U+07C9", "U+0966", "U+0967",
      "U+0968", "U+0969", "U+096A", "U+096B", "U+096C", "U+096D", "U+096E", "U+096F",
      "U+09E6", "U+09E7", "U+09E8", "U+09E9", "U+09EA", "U+09EB", "U+09EC", "U+09ED",
      "U+09EE", "U+09EF", "U+0A66", "U+0A67", "U+0A68", "U+0A69", "U+0A6A", "U+0A6B",
      "U+0A6C", "U+0A6D", "U+0A6E", "U+0A6F", "U+0AE6", "U+0AE7", "U+0AE8", "U+0AE9",
      "U+0AEA", "U+0AEB", "U+0AEC", "U+0AED", "U+0AEE", "U+0AEF", "U+0B66", "U+0B67",
      "U+0B68", "U+0B69", "U+0B6A", "U+0B6B", "U+0B6C", "U+0B6D", "U+0B6E", "U+0B6F",
      "U+0BE6", "U+0BE7", "U+0BE8", "U+0BE9", "U+0BEA", "U+0BEB", "U+0BEC", "U+0BED",
      "U+0BEE", "U+0BEF", "U+0C66", "U+0C67", "U+0C68", "U+0C69", "U+0C6A", "U+0C6B",
      "U+0C6C", "U+0C6D", "U+0C6E", "U+0C6F", "U+0CE6", "U+0CE7", "U+0CE8", "U+0CE9",
      "U+0CEA", "U+0CEB", "U+0CEC", "U+0CED", "U+0CEE", "U+0CEF", "U+0D66", "U+0D67",
      "U+0D68", "U+0D69", "U+0D6A", "U+0D6B", "U+0D6C", "U+0D6D", "U+0D6E", "U+0D6F",
      "U+0DE6", "U+0DE7", "U+0DE8", "U+0DE9", "U+0DEA", "U+0DEB", "U+0DEC", "U+0DED",
      "U+0DEE", "U+0DEF", "U+0E50", "U+0E51", "U+0E52", "U+0E53", "U+0E54", "U+0E55",
      "U+0E56", "U+0E57", "U+0E58", "U+0E59", "U+0ED0", "U+0ED1", "U+0ED2", "U+0ED3",
      "U+0ED4", "U+0ED5", "U+0ED6", "U+0ED7", "U+0ED8", "U+0ED9", "U+0F20", "U+0F21",
      "U+0F22", "U+0F23", "U+0F24", "U+0F25", "U+0F26", "U+0F27", "U+0F28", "U+0F29",
      "U+1040", "U+1041", "U+1042", "U+1043", "U+1044", "U+1045", "U+1046", "U+1047",
      "U+1048", "U+1049", "U+1090", "U+1091", "U+1092", "U+1093", "U+1094", "U+1095",
      "U+1096", "U+1097", "U+1098", "U+1099", "U+17E0", "U+17E1", "U+17E2", "U+17E3",
      "U+17E4", "U+17E5", "U+17E6", "U+17E7", "U+17E8", "U+17E9", "U+1810", "U+1811",
      "U+1812", "U+1813", "U+1814", "U+1815", "U+1816", "U+1817", "U+1818", "U+1819",
      "U+1946", "U+1947", "U+1948", "U+1949", "U+194A", "U+194B", "U+194C", "U+194D",
      "U+194E", "U+194F", "U+19D0", "U+19D1", "U+19D2", "U+19D3", "U+19D4", "U+19D5",
      "U+19D6", "U+19D7", "U+19D8", "U+19D9", "U+1A80", "U+1A81", "U+1A82", "U+1A83",
      "U+1A84", "U+1A85", "U+1A86", "U+1A87", "U+1A88", "U+1A89", "U+1A90", "U+1A91",
      "U+1A92", "U+1A93", "U+1A94", "U+1A95", "U+1A96", "U+1A97", "U+1A98", "U+1A99",
      "U+1B50", "U+1B51", "U+1B52", "U+1B53", "U+1B54", "U+1B55", "U+1B56", "U+1B57",
      "U+1B58", "U+1B59", "U+1BB0", "U+1BB1", "U+1BB2", "U+1BB3", "U+1BB4", "U+1BB5",
      "U+1BB6", "U+1BB7", "U+1BB8", "U+1BB9", "U+1C40", "U+1C41", "U+1C42", "U+1C43",
      "U+1C44", "U+1C45", "U+1C46", "U+1C47", "U+1C48", "U+1C49", "U+1C50", "U+1C51",
      "U+1C52", "U+1C53", "U+1C54", "U+1C55", "U+1C56", "U+1C57", "U+1C58", "U+1C59",
      "U+A620", "U+A621", "U+A622", "U+A623", "U+A624", "U+A625", "U+A626", "U+A627",
      "U+A628", "U+A629", "U+A8D0", "U+A8D1", "U+A8D2", "U+A8D3", "U+A8D4", "U+A8D5",
      "U+A8D6", "U+A8D7", "U+A8D8", "U+A8D9", "U+A900", "U+A901", "U+A902", "U+A903",
      "U+A904", "U+A905", "U+A906", "U+A907", "U+A908", "U+A909", "U+A9D0", "U+A9D1",
      "U+A9D2", "U+A9D3", "U+A9D4", "U+A9D5", "U+A9D6", "U+A9D7", "U+A9D8", "U+A9D9",
      "U+A9F0", "U+A9F1", "U+A9F2", "U+A9F3", "U+A9F4", "U+A9F5", "U+A9F6", "U+A9F7",
      "U+A9F8", "U+A9F9", "U+AA50", "U+AA51", "U+AA52", "U+AA53", "U+AA54", "U+AA55",
      "U+AA56", "U+AA57", "U+AA58", "U+AA59", "U+ABF0", "U+ABF1", "U+ABF2", "U+ABF3",
      "U+ABF4", "U+ABF5", "U+ABF6", "U+ABF7", "U+ABF8", "U+ABF9", "U+FF10", "U+FF11",
      "U+FF12", "U+FF13", "U+FF14", "U+FF15", "U+FF16", "U+FF17", "U+FF18", "U+FF19",
      "U+104A0", "U+104A1", "U+104A2", "U+104A3", "U+104A4", "U+104A5", "U+104A6", "U+104A7",
      "U+104A8", "U+104A9", "U+10D30", "U+10D31", "U+10D32", "U+10D33", "U+10D34", "U+10D35",
      "U+10D36", "U+10D37", "U+10D38", "U+10D39", "U+11066", "U+11067", "U+11068", "U+11069",
      "U+1106A", "U+1106B", "U+1106C", "U+1106D", "U+1106E", "U+1106F", "U+110F0", "U+110F1",
      "U+110F2", "U+110F3", "U+110F4", "U+110F5", "U+110F6", "U+110F7", "U+110F8", "U+110F9",
      "U+11136", "U+11137", "U+11138", "U+11139", "U+1113A", "U+1113B", "U+1113C", "U+1113D",
      "U+1113E", "U+1113F", "U+111D0", "U+111D1", "U+111D2", "U+111D3", "U+111D4", "U+111D5",
      "U+111D6", "U+111D7", "U+111D8", "U+111D9", "U+112F0", "U+112F1", "U+112F2", "U+112F3",
      "U+112F4", "U+112F5", "U+112F6", "U+112F7", "U+112F8", "U+112F9", "U+11450", "U+11451",
      "U+11452", "U+11453", "U+11454", "U+11455", "U+11456", "U+11457", "U+11458", "U+11459",
      "U+114D0", "U+114D1", "U+114D2", "U+114D3", "U+114D4", "U+114D5", "U+114D6", "U+114D7",
      "U+114D8", "U+114D9", "U+11650", "U+11651", "U+11652", "U+11653", "U+11654", "U+11655",
      "U+11656", "U+11657", "U+11658", "U+11659", "U+116C0", "U+116C1", "U+116C2", "U+116C3",
      "U+116C4", "U+116C5", "U+116C6", "U+116C7", "U+116C8", "U+116C9", "U+11730", "U+11731",
      "U+11732", "U+11733", "U+11734", "U+11735", "U+11736", "U+11737", "U+11738", "U+11739",
      "U+118E0", "U+118E1", "U+118E2", "U+118E3", "U+118E4", "U+118E5", "U+118E6", "U+118E7",
      "U+118E8", "U+118E9", "U+11950", "U+11951", "U+11952", "U+11953", "U+11954", "U+11955",
      "U+11956", "U+11957", "U+11958", "U+11959", "U+11C50", "U+11C51", "U+11C52", "U+11C53",
      "U+11C54", "U+11C55", "U+11C56", "U+11C57", "U+11C58", "U+11C59", "U+11D50", "U+11D51",
      "U+11D52", "U+11D53", "U+11D54", "U+11D55", "U+11D56", "U+11D57", "U+11D58", "U+11D59",
      "U+11DA0", "U+11DA1", "U+11DA2", "U+11DA3", "U+11DA4", "U+11DA5", "U+11DA6", "U+11DA7",
      "U+11DA8", "U+11DA9", "U+16A60", "U+16A61", "U+16A62", "U+16A63", "U+16A64", "U+16A65",
      "U+16A66", "U+16A67", "U+16A68", "U+16A69", "U+16AC0", "U+16AC1", "U+16AC2", "U+16AC3",
      "U+16AC4", "U+16AC5", "U+16AC6", "U+16AC7", "U+16AC8", "U+16AC9", "U+16B50", "U+16B51",
      "U+16B52", "U+16B53", "U+16B54", "U+16B55", "U+16B56", "U+16B57", "U+16B58", "U+16B59",
      "U+1D7CE", "U+1D7CF", "U+1D7D0", "U+1D7D1", "U+1D7D2", "U+1D7D3", "U+1D7D4", "U+1D7D5",
      "U+1D7D6", "U+1D7D7", "U+1D7D8", "U+1D7D9", "U+1D7DA", "U+1D7DB", "U+1D7DC", "U+1D7DD",
      "U+1D7DE", "U+1D7DF", "U+1D7E0", "U+1D7E1", "U+1D7E2", "U+1D7E3", "U+1D7E4", "U+1D7E5",
      "U+1D7E6", "U+1D7E7", "U+1D7E8", "U+1D7E9", "U+1D7EA", "U+1D7EB", "U+1D7EC", "U+1D7ED",
      "U+1D7EE", "U+1D7EF", "U+1D7F0", "U+1D7F1", "U+1D7F2", "U+1D7F3", "U+1D7F4", "U+1D7F5",
      "U+1D7F6", "U+1D7F7", "U+1D7F8", "U+1D7F9", "U+1D7FA", "U+1D7FB", "U+1D7FC", "U+1D7FD",
      "U+1D7FE", "U+1D7FF", "U+1E140", "U+1E141", "U+1E142", "U+1E143", "U+1E144", "U+1E145",
      "U+1E146", "U+1E147", "U+1E148", "U+1E149", "U+1E2F0", "U+1E2F1", "U+1E2F2", "U+1E2F3",
      "U+1E2F4", "U+1E2F5", "U+1E2F6", "U+1E2F7", "U+1E2F8", "U+1E2F9", "U+1E950", "U+1E951",
      "U+1E952", "U+1E953", "U+1E954", "U+1E955", "U+1E956", "U+1E957", "U+1E958", "U+1E959",
      "U+1FBF0", "U+1FBF1", "U+1FBF2", "U+1FBF3", "U+1FBF4", "U+1FBF5", "U+1FBF6", "U+1FBF7",
      "U+1FBF8", "U+1FBF9" }

\* \d on a str pattern: every Unicode decimal digit.
Digits == AsciiDigits \cup UnicodeDigits
Uppers == {"A", "B", "C", "D", "E", "F", "G", "H", "I", "J", "K", "L", "M",
           "N", "O", "P", "Q", "R", "S", "T", "U", "V", "W", "X", "Y", "Z"}
\* \s on a str pattern, str.split() and str.strip(): the characters with
\* str.isspace().
Spaces == {" ", "\t", "\n", "\f", "\r", "U+000B", "U+001C", "U+001D", "U+001E", "U+001F",
           "U+0085", "U+00A0", "U+1680", "U+2000", "U+2001", "U+2002", "U+2003",
           "U+2004", "U+2005", "U+2006", "U+2007", "U+2008", "U+2009", "U+200A",
           "U+2028", "U+2029", "U+202F", "U+205F", "U+3000"}

IsDigit(c) == c \in Digits
IsUpper(c) == c \in Uppers
IsSpace(c) == c \in Spaces

SubStr(s, a, b) == MkSeq([i \in 1..(b - a + 1) |-> s[a + i - 1]], b - a + 1)

\* str.split(): the maximal runs of non-whitespace characters.
RECURSIVE SplitFrom(_, _, _, _)
SplitFrom(s, i, cur, acc) ==
    IF i > Len(s)
    THEN IF cur = <<>> THEN acc ELSE Append(acc, cur)
    ELSE IF IsSpace(s[i])
         THEN SplitFrom(s, i + 1, <<>>, IF cur = <<>> THEN acc ELSE Append(acc, cur))
         ELSE SplitFrom(s, i + 1, Append(cur, s[i]), acc)

Split(s) == SplitFrom(s, 1, <<>>, <<>>)

\* sep.join(parts)
RECURSIVE Join(_, _)
Join(parts, sep) ==
    IF parts = <<>> THEN <<>>
    ELSE IF Len(parts) = 1 THEN parts[1]
    ELSE parts[1] \o sep \o Join(Tail(parts), sep)

\* str.strip() is empty
IsBlank(s) == \A i \in 1..Len(s) : IsSpace(s[i])

\* n digits starting at position p
DigitsAt(s, p, n) == p + n - 1 <= Len(s) /\ \A i \in p..(p + n - 1) : IsDigit(s[i])

\* First position at or after p that holds no whitespace (Len(s)+1 at the end).
RECURSIVE SpaceRunEnd(_, _)
SpaceRunEnd(s, p) ==
    IF p <= Len(s) /\ IsSpace(s[p]) THEN SpaceRunEnd(s, p + 1) ELSE p

-----------------------------------------------------------------------------
(* extract_sku, app.py lines 104-117.                                      *)

\* The tail of the pattern, (\d{5})\s+(\d{4})\s+(\d{4}), matched at q.
\* \s+ is greedy; a shorter run would leave whitespace where \d is needed.
SkuTailAt(s, q) ==
    LET r1 == SpaceRunEnd(s, q + 5)
        r2 == SpaceRunEnd(s, r1 + 4)
    IN  /\ DigitsAt(s, q, 5)
        /\ r1 > q + 5
        /\ DigitsAt(s, r1, 4)
        /\ r2 > r1 + 4
        /\ DigitsAt(s, r2, 4)

\* Start of group 2 for a match of the whole pattern at p, or 0.
\* ([A-Z])\s? : the optional whitespace is tried first, then skipped.
SkuGroup2At(s, p) ==
    IF ~(p <= Len(s) /\ IsUpper(s[p])) THEN 0
    ELSE IF p + 1 <= Len(s) /\ IsSpace(s[p + 1]) /\ SkuTailAt(s, p + 2) THEN p + 2
    ELSE IF SkuTailAt(s, p + 1) THEN p + 1
    ELSE 0

\* re.search: the leftmost position with a match, or 0.
SkuSearch(s) ==
    LET hits == {p \in 1..Len(s) : SkuGroup2At(s, p) # 0}
    IN  IF hits = {} THEN 0 ELSE CHOOSE p \in hits : \A o \in hits : p <= o

extract_sku(label_text) ==
    LET normalized == Join(Split(label_text), <<" ">>)
        p  == SkuSearch(normalized)
        q  == SkuGroup2At(normalized, p)
        r1 == SpaceRunEnd(normalized, q + 5)
        r2 == SpaceRunEnd(normalized, r1 + 4)
    IN  IF p = 0 THEN None
        ELSE <<normalized[p]>> \o SubStr(normalized, q, q + 4) \o <<" ">>
             \o SubStr(normalized, r1, r1 + 3) \o <<" ">>
             \o SubStr(normalized, r2, r2 + 3)

-----------------------------------------------------------------------------
(* find_barcode_word_bbox, app.py lines 120-139.                           *)
(* A word is the tuple <<x0, y0, x1, y1, text>> of page.get_text("words"). *)

\* re.sub(r"\D", "", text)
StripNonDigits(text) == SelectSeq(text, IsDigit)

\* A faulty BarcodeLoop: ">=" for ">", so that a later word with as many
\* digits replaces an earlier one.
RECURSIVE BarcodeLoopLastWins(_, _, _, _)
BarcodeLoopLastWins(ws, i, best, best_len) ==
    IF i > Len(ws) THEN <<best, best_len>>
    ELSE LET w      == ws[i]
             digits == StripNonDigits(w[5])
         IN  IF Len(digits) >= best_len
             THEN BarcodeLoopLastWins(ws, i + 1, <<w[1], w[2], w[3], w[4], w[5], digits>>, Len(digits))
             ELSE BarcodeLoopLastWins(ws, i + 1, best, best_len)

\* The loop of lines 129-134 over words[i..]: state <<best, best_len>>.
RECURSIVE BarcodeLoop(_, _, _, _)
BarcodeLoop(ws, i, best, best_len) ==
    IF i > Len(ws) THEN <<best, best_len>>
    ELSE LET w      == ws[i]
             digits == StripNonDigits(w[5])
         IN  IF Len(digits) > best_len
             THEN BarcodeLoop(ws, i + 1, <<w[1], w[2], w[3], w[4], w[5], digits>>, Len(digits))
             ELSE BarcodeLoop(ws, i + 1, best, best_len)

\* Line 136: best_len < 8
MIN_BARCODE_DIGITS == 8

\* Lines 126-139, on the list page.get_text("words", clip=clip_rect) gave.
FindBest(ws) ==
    LET fin      == BarcodeLoop(ws, 1, None, 0)
        best     == fin[1]
        best_len == fin[2]
    IN  IF best = None \/ best_len < MIN_BARCODE_DIGITS THEN None ELSE best

-----------------------------------------------------------------------------
(* compute_first_label_clip, app.py lines 20-101.                          *)
(* A page is [width, height, blocks, words]: page.rect's size and what     *)
(* page.get_text("blocks") / page.get_text("words") return.  A block is    *)
(* the tuple <<x0, y0, x1, y1, text>>.                                     *)

\* Lines 32-43: the blocks kept (PyMuPDF blocks always have len(b) >= 5).
BlockData(page) == SelectSeq(page.blocks, LAMBDA b : ~IsBlank(b[5]))

\* Line 41: cx = (x0 + x1) / 2.0 of every kept block.
BlockXs(page) ==
    LET bd == BlockData(page)
    IN  MkSeq([i \in 1..Len(bd) |-> FDiv(FAdd(FInt(bd[i][1]), FInt(bd[i][3])), FInt(2))], Len(bd))

\* Lines 47-48 and 87-88: the equal-width fallback rectangle.
FallbackRect(page, cols) ==
    Rect(FInt(0), FInt(0), FDiv(FInt(page.width), FInt(cols)), FInt(page.height))

RECURSIVE FSeqMin(_)
FSeqMin(s) == IF Len(s) = 1 THEN s[1] ELSE FMin(s[1], FSeqMin(Tail(s)))
RECURSIVE FSeqMax(_)
FSeqMax(s) == IF Len(s) = 1 THEN s[1] ELSE FMax(s[1], FSeqMax(Tail(s)))
\* sum(s): 0 + s[1] + ... + s[n], added from the left.
RECURSIVE FSum(_)
FSum(s) ==
    IF s = <<>> THEN FInt(0) ELSE FAdd(FSum(SubSeq(s, 1, Len(s) - 1)), s[Len(s)])

\* Line 54: k == 1 or maxx == minx
SingleCenter(xs, k) == k = 1 \/ FSeqMax(xs) = FSeqMin(xs)

\* Lines 55 and 58-59: the initial centers.
InitCenters(xs, k) ==
    LET minx == FSeqMin(xs)
        maxx == FSeqMax(xs)
    IN  IF SingleCenter(xs, k)
        THEN <<FDiv(FAdd(minx, maxx), FInt(2))>>
        ELSE LET spacing == FDiv(FSub(maxx, minx), FInt(k - 1))
             IN  MkSeq([i \in 1..k |-> FAdd(minx, FMul(FInt(i - 1), spacing))], k)

\* Lines 56 and 60: assignments = [0] * len(xs)
InitAssignments(xs) == MkSeq([i \in 1..Len(xs) |-> 0], Len(xs))

\* Line 65: min(range(k), key=lambda j: abs(x - centers[j])): the lowest
\* index among the nearest centers.  Column j's center is cs[j + 1].
Nearest(x, cs) ==
    LET dist == MkSeq([j \in 1..Len(cs) |-> FAbs(FSub(x, cs[j]))], Len(cs))
    IN  CHOOSE j \in 0..(Len(cs) - 1) :
            \A o \in 0..(Len(cs) - 1) :
                FLt(dist[j + 1], dist[o + 1]) \/ (dist[j + 1] = dist[o + 1] /\ j <= o)

\* Lines 64-65
Assign(xs, cs) == MkSeq([i \in 1..Len(xs) |-> Nearest(xs[i], cs)], Len(xs))

\* Line 69: members = [xs[i] for i, a in enumerate(assignments) if a == j]
RECURSIVE MembersFrom(_, _, _, _)
MembersFrom(xs, asg, j, i) ==
    IF i > Len(xs) THEN <<>>
    ELSE (IF asg[i] = j THEN <<xs[i]>> ELSE <<>>) \o MembersFrom(xs, asg, j, i + 1)

Members(xs, asg, j) == MembersFrom(xs, asg, j, 1)

\* A faulty NewCenter: the center of a column without members is reset
\* to 0 instead of kept.
NewCenterZeroWhenEmpty(members, old) ==
    IF members # <<>> THEN FDiv(FSum(members), FInt(Len(members))) ELSE FInt(0)

\* Lines 70-71: a column's new center; a column without members keeps its own.
NewCenter(members, old) ==
    IF members # <<>> THEN FDiv(FSum(members), FInt(Len(members))) ELSE old

\* Lines 67-72
Recompute(xs, asg, cs) ==
    MkSeq([j \in 1..Len(cs) |-> NewCenter(Members(xs, asg, j - 1), cs[j])], Len(cs))

\* Line 62: for _ in range(10)
KMEANS_ROUNDS == 10

\* One round of lines 63-72: <<centers, assignments>> after it.
KMeansRound(xs, cs) ==
    LET asg == Assign(xs, cs)
    IN  <<Recompute(xs, asg, cs), asg>>

\* Lines 62-72.  Neither list is ever empty here; looking at them makes
\* the value of a round be computed before the next round starts.
RECURSIVE KMeansLoop(_, _, _, _)
RECURSIVE KMeansNext(_, _, _)
KMeansLoop(xs, cs, asg, n) ==
    IF n = 0 \/ Len(cs) = 0 \/ Len(asg) = 0 THEN <<cs, asg>>
    ELSE KMeansNext(xs, KMeansRound(xs, cs), n)
KMeansNext(xs, r, n) == KMeansLoop(xs, r[1], r[2], n - 1)

\* Lines 51-72: <<centers, assignments>> when the clustering is over.
KMeans(xs, k) ==
    IF SingleCenter(xs, k)
    THEN <<InitCenters(xs, k), InitAssignments(xs)>>
    ELSE KMeansLoop(xs, InitCenters(xs, k), InitAssignments(xs), KMEANS_ROUNDS)

\* Lines 81-82: sorted(range(len(centers)), key=...)[0]; the sort is stable.
FirstIdx(cs) ==
    CHOOSE j \in 0..(Len(cs) - 1) :
        \A o \in 0..(Len(cs) - 1) :
            FLt(cs[j + 1], cs[o + 1]) \/ (cs[j + 1] = cs[o + 1] /\ j <= o)

\* Lines 75-83: the blocks of the leftmost column.
RECURSIVE ColBlocksFrom(_, _, _, _)
ColBlocksFrom(bd, asg, j, i) ==
    IF i > Len(bd) THEN <<>>
    ELSE (IF asg[i] = j THEN <<bd[i]>> ELSE <<>>) \o ColBlocksFrom(bd, asg, j, i + 1)

FirstBlocks(page, cs, asg) == ColBlocksFrom(BlockData(page), asg, FirstIdx(cs), 1)

SeqInts(s, f) == MkSeq([i \in 1..Len(s) |-> FInt(s[i][f])], Len(s))

\* Lines 96-97: the horizontal bounds of the tight box.
ClampMinX(page, first_blocks, padding_x) ==
    FMax(FInt(0), FSub(FSeqMin(SeqInts(first_blocks, 1)), FInt(padding_x)))
ClampMaxX(page, first_blocks, padding_x) ==
    FMin(FInt(page.width), FAdd(FSeqMax(SeqInts(first_blocks, 3)), FInt(padding_x)))
\* Lines 98-99: the vertical bounds of the tight box.
ClampMinY(page, first_blocks, padding_y) ==
    FMax(FInt(0), FSub(FSeqMin(SeqInts(first_blocks, 2)), FInt(padding_y)))
ClampMaxY(page, first_blocks, padding_y) ==
    FMin(FInt(page.height), FAdd(FSeqMax(SeqInts(first_blocks, 4)), FInt(padding_y)))

\* Lines 90-101
TightRect(page, first_blocks, padding_x, padding_y) ==
    Rect(ClampMinX(page, first_blocks, padding_x),
         ClampMinY(page, first_blocks, padding_y),
         ClampMaxX(page, first_blocks, padding_x),
         ClampMaxY(page, first_blocks, padding_y))

\* Lines 74-101, from the clustering's result.
GroupAndBound(page, cols, cs, asg, padding_x, padding_y) ==
    LET first_blocks == FirstBlocks(page, cs, asg)
    IN  IF first_blocks = <<>>
        THEN FallbackRect(page, cols)
        ELSE TightRect(page, first_blocks, padding_x, padding_y)

\* Lines 50-101, from the x centers of the blocks.
ClusterAndBound(page, cols, xs, padding_x, padding_y) ==
    LET km == KMeans(xs, cols)
    IN  GroupAndBound(page, cols, km[1], km[2], padding_x, padding_y)

compute_first_label_clip(page, cols, padding_x, padding_y) ==
    IF BlockData(page) = <<>>
    THEN FallbackRect(page, cols)
    ELSE ClusterAndBound(page, cols, BlockXs(page), padding_x, padding_y)

-----------------------------------------------------------------------------
(* The document access layer (PyMuPDF), as far as the code relies on it.   *)

\* A word's box and the clip overlap.
Overlaps(w, clip) ==
    /\ FLt(FInt(w[1]), clip.x1) /\ FLt(clip.x0, FInt(w[3]))
    /\ FLt(FInt(w[2]), clip.y1) /\ FLt(clip.y0, FInt(w[4]))

\* page.get_text("words", clip=clip_rect), app.py line 125.
GetWords(page, clip_rect) == SelectSeq(page.words, LAMBDA w : Overlaps(w, clip_rect))

\* page.get_text("text", clip=label_rect), app.py line 183: the words of the
\* clip, one per line.
GetText(page, clip_rect) ==
    LET ws == GetWords(page, clip_rect)
    IN  Join(MkSeq([i \in 1..Len(ws) |-> ws[i][5]], Len(ws)), <<"\n">>)

\* app.py lines 120-139
find_barcode_word_bbox(page, clip_rect) == FindBest(GetWords(page, clip_rect))

-----------------------------------------------------------------------------
(* process_pdf_bytes, app.py lines 142-256.                                *)

\* Lines 14-15: the doubles 82.68998718261719 and 78.56026458740234.
REF_LABEL_WIDTH  == FDiv(FInt(5419171), FInt(65536))
REF_LABEL_HEIGHT == FDiv(FInt(10297051), FInt(131072))

\* A faulty CropX: the window is clipped to the page instead of shifted.
CropXClipped(center_x, target_w, page_width) ==
    <<FMax(FInt(0), FSub(center_x, FDiv(target_w, FInt(2)))),
      FMin(page_width, FAdd(center_x, FDiv(target_w, FInt(2))))>>

\* Lines 205-216: the horizontal bounds <<min_x, max_x>> of the crop.
\* Lines 209-212 (if min_x < 0) and 213-216 (if max_x > page_rect.width)
\* take the bounds and give them back shifted.
CropShiftRight(min_x, max_x) ==
    IF FLt(min_x, FInt(0)) THEN <<FInt(0), FAdd(max_x, FNeg(min_x))>>
    ELSE <<min_x, max_x>>
CropShiftLeft(xb, page_width) ==
    IF FLt(page_width, xb[2])
    THEN <<FSub(xb[1], FSub(xb[2], page_width)), page_width>>
    ELSE xb
CropX(center_x, target_w, page_width) ==
    CropShiftLeft(CropShiftRight(FSub(center_x, FDiv(target_w, FInt(2))),
                                 FAdd(center_x, FDiv(target_w, FInt(2)))),
                  page_width)

\* Lines 219-224: the vertical bounds <<min_y, max_y>> of the crop.
CropY(label_y0, target_h, page_height) ==
    LET max_y0 == FAdd(label_y0, target_h)
    IN  IF FLt(page_height, max_y0)
        THEN <<FSub(page_height, target_h), page_height>>
        ELSE <<label_y0, max_y0>>

\* Lines 198-226: the crop centred on the barcode digits.
\* Line 226: fitz.Rect(min_x, min_y, max_x, max_y)
CropRect(xb, yb) == Rect(xb[1], yb[1], xb[2], yb[2])
BarcodeClip(binfo, label_rect, page) ==
    CropRect(CropX(FDiv(FAdd(FInt(binfo[1]), FInt(binfo[3])), FInt(2)),
                   REF_LABEL_WIDTH, FInt(page.width)),
             CropY(label_rect.y0, REF_LABEL_HEIGHT, FInt(page.height)))

\* Lines 193-226
FinalClip(page, label_rect) ==
    LET binfo == find_barcode_word_bbox(page, label_rect)
    IN  IF binfo = None THEN label_rect ELSE BarcodeClip(binfo, label_rect, page)

\* A faulty RenderLabel: the new page takes the size of the clip.
RenderLabelClipSized(pg_index, clip) ==
    [width |-> RectWidth(clip), height |-> RectHeight(clip),
     src_page |-> pg_index, clip |-> clip]

\* Lines 232-244: the single-page PDF: a new page of the reference size
\* showing the clip of the source page, scaled to fill it.
RenderLabel(pg_index, clip) ==
    [width |-> REF_LABEL_WIDTH, height |-> REF_LABEL_HEIGHT,
     src_page |-> pg_index, clip |-> clip]

\* "CHILE BARCODE HANGTAG "
NamePrefix ==
    <<"C", "H", "I", "L", "E", " ", "B", "A", "R", "C", "O", "D", "E", " ",
      "H", "A", "N", "G", "T", "A", "G", " ">>
PdfSuffix == <<".", "p", "d", "f">>

\* Line 229
OutName(sku) == NamePrefix \o sku \o PdfSuffix

\* Lines 183-184: the SKU read from the leftmost label of a page.
PageSku(page, cols, padding_x, padding_y) ==
    extract_sku(GetText(page, compute_first_label_clip(page, cols, padding_x, padding_y)))

\* A faulty AlreadySeen: the duplicate check is missing.
AlreadySeenNever(sku, seen) == FALSE

\* Lines 188-190: whether a page with this SKU is skipped as a duplicate.
AlreadySeen(sku, seen) == sku \in seen

\* Lines 175-253: one pass of the page loop, on st = [results, seen_skus].
\* Lines 185-253, from the label area and the SKU read in it.
ProcessLabel(d, pg_index, st, label_rect, sku) ==
    IF sku = None THEN st
    ELSE IF AlreadySeen(sku, st.seen_skus) THEN st
    ELSE [results |->
             Append(st.results,
                    [output_name   |-> OutName(sku),
                     original_name |-> d.name,
                     sku           |-> sku,
                     pdf_bytes     |-> RenderLabel(pg_index,
                                           FinalClip(d.pages[pg_index + 1], label_rect))]),
          seen_skus |-> st.seen_skus \cup {sku}]
\* Lines 183-253, from the label area.
ProcessClip(d, pg_index, st, label_rect) ==
    ProcessLabel(d, pg_index, st, label_rect,
                 extract_sku(GetText(d.pages[pg_index + 1], label_rect)))
ProcessPage(d, pg_index, st, cols, padding_x, padding_y) ==
    ProcessClip(d, pg_index, st,
                compute_first_label_clip(d.pages[pg_index + 1], cols, padding_x, padding_y))

RECURSIVE PageLoop(_, _, _, _, _, _)
PageLoop(d, pg_index, st, cols, padding_x, padding_y) ==
    IF pg_index >= Len(d.pages) THEN st
    ELSE PageLoop(d, pg_index + 1, ProcessPage(d, pg_index, st, cols, padding_x, padding_y),
                  cols, padding_x, padding_y)

\* Lines 161-170: fitz.open raised, or the document has no pages.
NoPages(d) == ~d.opens \/ Len(d.pages) = 0

\* A document is [name, opens, pages]: opens is whether fitz.open succeeds.
process_pdf_bytes(d, cols, padding_x, padding_y) ==
    IF NoPages(d) THEN <<>>
    ELSE PageLoop(d, 0, [results |-> <<>>, seen_skus |-> {}], cols, padding_x, padding_y).results

-----------------------------------------------------------------------------
(* crop_carton_app.py.  A document is [name, opens, width, height, ink,    *)
(* texts]: the page size in points, the pixels of the first page's raster  *)
(* that are not white, as <<x, y, gray>> in raster coordinates, and the    *)
(* text of every page.  All pages have the size of the first.              *)

TARGET_WIDTH  == 680
TARGET_HEIGHT == 480
\* Line 14: TARGET_RATIO = TARGET_WIDTH / TARGET_HEIGHT
TARGET_RATIO  == FDiv(FInt(TARGET_WIDTH), FInt(TARGET_HEIGHT))
\* Lines 39-40: the defaults of zoom and threshold.
DEFAULT_ZOOM      == 2
DEFAULT_THRESHOLD == 250
WHITE == 255

RefKeyword == <<"R", "E", "F", "E", "R", "E", "N", "C", "I", "A", ":">>
UNKNOWN    == <<"U", "N", "K", "N", "O", "W", "N">>

\* [A-Z0-9]
IsAlnum(c) == IsUpper(c) \/ c \in AsciiDigits

\* First position at or after p that holds no [A-Z0-9] (Len(s)+1 at the end).
RECURSIVE AlnumRunEnd(_, _)
AlnumRunEnd(s, p) ==
    IF p <= Len(s) /\ IsAlnum(s[p]) THEN AlnumRunEnd(s, p + 1) ELSE p

\* Start of group 1 for a match of REFERENCIA:\s*([A-Z0-9]+) at p, or 0.
\* \s* is greedy; a shorter run would leave whitespace where [A-Z0-9] is
\* needed.
RefGroupAt(s, p) ==
    LET q == SpaceRunEnd(s, p + Len(RefKeyword))
    IN  IF /\ p + Len(RefKeyword) - 1 <= Len(s)
           /\ SubStr(s, p, p + Len(RefKeyword) - 1) = RefKeyword
           /\ q <= Len(s) /\ IsAlnum(s[q])
        THEN q ELSE 0

\* re.search: the leftmost position with a match, or 0.
RefSearch(s) ==
    LET hits == {p \in 1..Len(s) : RefGroupAt(s, p) # 0}
    IN  IF hits = {} THEN 0 ELSE CHOOSE p \in hits : \A o \in hits : p <= o

\* Lines 17-22.
extract_reference(text) ==
    LET p == RefSearch(text)
        q == RefGroupAt(text, p)
    IN  IF p # 0 THEN SubStr(text, q, AlnumRunEnd(text, q) - 1) ELSE UNKNOWN

\* Line 32: groups.setdefault(ref, []).append(i), on a dict kept as the list
\* of its <<key, value>> items in insertion order.
SetDefaultAppend(gs, ref, i) ==
    IF \E k \in 1..Len(gs) : gs[k][1] = ref
    THEN MkSeq([k \in 1..Len(gs) |->
                   IF gs[k][1] = ref THEN <<ref, Append(gs[k][2], i)>> ELSE gs[k]],
               Len(gs))
    ELSE Append(gs, <<ref, <<i>>>>)

RECURSIVE GroupLoop(_, _, _)
GroupLoop(d, i, gs) ==
    IF i >= Len(d.texts) THEN gs
    ELSE GroupLoop(d, i + 1, SetDefaultAppend(gs, extract_reference(d.texts[i + 1]), i))

\* Lines 25-33.
extract_groups(d) == GroupLoop(d, 0, <<>>)

\* Lines 50-51: the raster has zoom * page size pixels.
PixWidth(d, zoom)  == zoom * d.width
PixHeight(d, zoom) == zoom * d.height

\* Lines 54-56: the gray value of a pixel.
Gray(d, x, y) ==
    IF \E k \in d.ink : k[1] = x /\ k[2] = y
    THEN (CHOOSE k \in d.ink : k[1] = x /\ k[2] = y)[3]
    ELSE WHITE

\* Lines 59-60: mask = arr < threshold; the <<x, y>> where it is set.
DarkPixels(d, zoom, threshold) ==
    {px \in (0..(PixWidth(d, zoom) - 1)) \X (0..(PixHeight(d, zoom) - 1)) :
        Gray(d, px[1], px[2]) < threshold}

SetMin(S) == CHOOSE m \in S : \A o \in S : m <= o
SetMax(S) == CHOOSE m \in S : \A o \in S : o <= m

\* Lines 66-68: the bounding box of the dark pixels, as floats.
ContentBox(dark) ==
    Rect(FInt(SetMin({px[1] : px \in dark})), FInt(SetMin({px[2] : px \in dark})),
         FInt(SetMax({px[1] : px \in dark})), FInt(SetMax({px[2] : px \in dark})))

\* An exception leaving a call.
Raised(exc) == [raised |-> exc]
HasRaised(r) == "raised" \in DOMAIN r

\* Line 73: whether width / height raises ZeroDivisionError.
RatioRaises(box) == FRaised(FDiv(RectWidth(box), RectHeight(box)))

\* Lines 69-85: grow the height when the box is too wide, else the width,
\* about the center of the box; a division by zero (line 73 for a box
\* without height, line 76 for a zero target ratio) leaves as the exception.
ExpandToRatio(box, target_ratio) ==
    LET width  == FSub(box.x1, box.x0)
        height == FSub(box.y1, box.y0)
        current_ratio == FDiv(width, height)
    IN  IF FRaised(current_ratio) THEN Raised("ZeroDivisionError")
        ELSE IF FLt(target_ratio, current_ratio)
        THEN LET new_height == FDiv(width, target_ratio)
                 center_y   == FDiv(FAdd(box.y0, box.y1), FInt(2))
             IN  IF FRaised(new_height) THEN Raised("ZeroDivisionError")
                 ELSE [box EXCEPT !.y0 = FSub(center_y, FDiv(new_height, FInt(2))),
                                  !.y1 = FAdd(center_y, FDiv(new_height, FInt(2)))]
        ELSE LET new_width == FMul(height, target_ratio)
                 center_x  == FDiv(FAdd(box.x0, box.x1), FInt(2))
             IN  [box EXCEPT !.x0 = FSub(center_x, FDiv(new_width, FInt(2))),
                             !.x1 = FAdd(center_x, FDiv(new_width, FInt(2)))]

\* Lines 88-91.
ClampToImage(box, pix_width, pix_height) ==
    Rect(FMax(FInt(0), box.x0), FMax(FInt(0), box.y0),
         FMin(FInt(pix_width), box.x1), FMin(FInt(pix_height), box.y1))

\* page.rect
PageRect(d) == Rect(FInt(0), FInt(0), FInt(d.width), FInt(d.height))

\* Lines 100-108: the pixel box in PDF coordinates.
ToPdfRect(box, d, zoom) ==
    LET scale_x == FDiv(FInt(d.width), FInt(PixWidth(d, zoom)))
        scale_y == FDiv(FInt(d.height), FInt(PixHeight(d, zoom)))
    IN  Rect(FMul(box.x0, scale_x), FMul(box.y0, scale_y),
             FMul(box.x1, scale_x), FMul(box.y1, scale_y))

\* Lines 36-110.  The result is crop_rect_pdf (the preview image is not
\* modelled), or the exception raised: doc[0] of a document without pages
\* (line 49), width / height of a box without height (line 73).
detect_crop_rect(d, target_ratio, zoom, threshold) ==
    IF Len(d.texts) = 0 THEN Raised("IndexError")
    ELSE LET dark == DarkPixels(d, zoom, threshold)
         IN  IF dark = {} THEN PageRect(d)
             ELSE LET adjusted == ExpandToRatio(ContentBox(dark), target_ratio)
                  IN  IF HasRaised(adjusted) THEN adjusted
                      ELSE ToPdfRect(ClampToImage(adjusted, PixWidth(d, zoom),
                                                  PixHeight(d, zoom)),
                                     d, zoom)

CartonPrefix == <<"C", "A", "R", "T", "O", "N", " ", "B", "A", "R", "C", "O", "D", "E",
                  " ", "-", " ">>

\* Lines 121-125: the pages of one group, each with its crop box set.
GroupPdf(page_indices, rect) ==
    MkSeq([k \in 1..Len(page_indices) |-> [src_page |-> page_indices[k], cropbox |-> rect]],
          Len(page_indices))

\* Lines 113-135: one <<ref, <<filename, pdf>>>> item per group.
build_group_pdfs(d, gs, rect) ==
    MkSeq([k \in 1..Len(gs) |->
              <<gs[k][1], <<CartonPrefix \o gs[k][1] \o PdfSuffix, GroupPdf(gs[k][2], rect)>>>>],
          Len(gs))

-----------------------------------------------------------------------------
(* Bounds of the model and the inputs drawn.                               *)

MaxWords  == 3    \* words handed to find_barcode_word_bbox
MaxBlocks == 4    \* text blocks of a page handed to compute_first_label_clip
MaxPages  == 4    \* pages of a document handed to process_pdf_bytes
MaxFiles  == 3    \* documents of one batch
MaxInk    == 2    \* pixels of a raster that are not white
MaxCartonPages == 3  \* pages of a picking document

\* All sequences over S of length at most n.
SeqsUpTo(S, n) == UNION {[1..m -> S] : m \in 0..n}

\* The parts of the state a specification does not use stay as they start.
BatchOff  == /\ uploaded_files = <<>> /\ file_idx = 0 /\ all_labels = <<>>
             /\ processed_labels = <<>> /\ pc = "off"
DocOff    == /\ doc = None /\ page_index = 0 /\ seen_skus = {} /\ results = <<>>
             /\ doc_pc = "off"
ClipOff   == /\ clip_page = None /\ clip_cols = 0 /\ centers = <<>> /\ assignments = <<>>
             /\ rounds = 0 /\ clip_out = None /\ clip_pc = "off"
CropOff   == /\ crop_in = None /\ final_clip = None /\ crop_pc = "off"
BcOff     == /\ words = <<>> /\ barcode_info = None /\ bc_pc = "off"
CartonOff == /\ detect_args = None /\ content_box = None /\ adjusted_box = None
             /\ clamped_box = None /\ carton_doc = None /\ crop_rect = None
             /\ groups = <<>> /\ outputs = <<>> /\ carton_pc = "off"

-----------------------------------------------------------------------------
(* SpecBarcode: find_barcode_word_bbox on every list of at most MaxWords   *)
(* words.                                                                  *)

\* Word texts: 7, 8, 8 (with punctuation), 8 and 10 digits, none, and 8
\* digits of which four are Arabic-Indic and fullwidth.
BarcodeWords ==
    { <<10, 40, 45, 48, <<"1", "2", "3", "4", "5", "6", "7">>>>,
      <<14, 70, 54, 78, <<"U+0661", "U+0662", "3", "4", "U+FF15", "U+FF16", "7", "8">>>>,
      <<10, 50, 50, 58, <<"1", "2", "3", "4", "5", "6", "7", "8">>>>,
      <<30, 50, 75, 58, <<"8", "7", "6", "5", "-", "4", "3", "2", "1">>>>,
      <<12, 60, 52, 68, <<"8", "7", "6", "5", "4", "3", "2", "1">>>>,
      <<20, 60, 70, 68, <<"0", "1", "2", "3", "4", "5", "6", "7", "8", "9">>>>,
      <<10, 10, 30, 18, <<"R", "E", "F">>>> }

BarcodeInit ==
    /\ words \in SeqsUpTo(BarcodeWords, MaxWords)
    /\ barcode_info = None
    /\ bc_pc = "call"
    /\ BatchOff /\ DocOff /\ ClipOff /\ CropOff /\ CartonOff

\* find_barcode_word_bbox runs on the words and returns.
BarcodeCall ==
    /\ bc_pc = "call"
    /\ barcode_info' = FindBest(words)
    /\ bc_pc' = "returned"
    /\ UNCHANGED <<words, batchVars, docVars, clipVars, cropVars, cartonVars>>

BarcodeNext == BarcodeCall
SpecBarcode == BarcodeInit /\ [][BarcodeNext]_vars

-----------------------------------------------------------------------------
(* SpecCrop: the barcode-centred crop of process_pdf_bytes (lines 197-226) *)
(* on anchors, label tops and page sizes.                                  *)

CropPages == { [width |-> 300, height |-> 100], [width |-> 83, height |-> 79],
               [width |-> 60, height |-> 100],  [width |-> 300, height |-> 50] }
CropAnchorLefts  == {0, 20, 55, 100, 250, 290}
CropAnchorWidths == {9, 40}
CropLabelTops    == {0, 8, 30, 45, 95}
CropDigits == <<"1", "2", "3", "4", "5", "6", "7", "8">>

\* The anchor is a word overlapping the page; the label rectangle starts
\* on the page (compute_first_label_clip never returns y0 < 0).
CropInit ==
    /\ \E pg \in CropPages, bx0 \in CropAnchorLefts, bw \in CropAnchorWidths,
          ly0 \in CropLabelTops :
          /\ bx0 < pg.width
          /\ ly0 <= pg.height
          /\ crop_in = [binfo |-> <<bx0, ly0, bx0 + bw, ly0 + 8, CropDigits, CropDigits>>,
                        label_rect |-> Rect(FInt(0), FInt(ly0), FDiv(FInt(pg.width), FInt(3)), FInt(pg.height)),
                        page |-> pg]
    /\ final_clip = None
    /\ crop_pc = "call"
    /\ BatchOff /\ DocOff /\ ClipOff /\ BcOff /\ CartonOff

\* Lines 198-226 run on the anchor found.
CropCall ==
    /\ crop_pc = "call"
    /\ final_clip' = BarcodeClip(crop_in.binfo, crop_in.label_rect, crop_in.page)
    /\ crop_pc' = "returned"
    /\ UNCHANGED <<crop_in, batchVars, docVars, clipVars, bcVars, cartonVars>>

CropNext == CropCall
SpecCrop == CropInit /\ [][CropNext]_vars

-----------------------------------------------------------------------------
(* SpecClip: compute_first_label_clip, one k-means round per step, on      *)
(* every list of at most MaxBlocks text blocks.                            *)

ClipText == <<"S", "K", "U">>
\* Blocks of a 100 x 60 page: four with text at different x, one holding
\* only whitespace, and one that lies wholly right of and below the page.
ClipBlocks ==
    { <<2, 10, 12, 20, ClipText>>,
      <<16, 5, 27, 15, ClipText>>,
      <<80, 2, 98, 58, ClipText>>,
      <<40, 20, 50, 30, <<" ", "\r", "U+00A0", "\n">>>>,
      <<110, 70, 130, 80, ClipText>> }
\* Block lists where a block lies midway between two recomputed centers
\* that are thirds, such as 9.5/3 and 23.5/3 around 5.5: the doubles the
\* code computes are not equally far, and the nearer one is not always
\* the one of the lowest index.
RoundingBlockLists ==
    { << <<4, 10, 5, 20, ClipText>>, <<3, 11, 4, 21, ClipText>>, <<1, 12, 2, 22, ClipText>>,
         <<8, 13, 10, 23, ClipText>>, <<5, 14, 6, 24, ClipText>>, <<8, 15, 10, 25, ClipText>> >>,
      << <<4, 10, 5, 20, ClipText>>, <<3, 11, 4, 21, ClipText>>, <<9, 12, 10, 22, ClipText>>,
         <<7, 13, 9, 23, ClipText>>, <<6, 14, 8, 24, ClipText>>, <<6, 15, 7, 25, ClipText>> >>,
      << <<6, 10, 7, 20, ClipText>>, <<4, 11, 5, 21, ClipText>>, <<11, 12, 12, 22, ClipText>>,
         <<8, 13, 9, 23, ClipText>>, <<7, 14, 9, 24, ClipText>>, <<8, 15, 10, 25, ClipText>> >> }
ClipCols     == {1, 2, 3}
ClipPaddings == {0, 5, 8}

ClipInit ==
    /\ \E bs \in SeqsUpTo(ClipBlocks, MaxBlocks) \cup RoundingBlockLists :
          clip_page = [width |-> 100, height |-> 60, blocks |-> bs, words |-> <<>>]
    /\ clip_cols \in ClipCols
    /\ centers = <<>> /\ assignments = <<>> /\ rounds = 0
    /\ clip_out = None
    /\ clip_pc = "start"
    /\ BatchOff /\ DocOff /\ CropOff /\ BcOff /\ CartonOff

\* Lines 29-60: collect the x-centers; without text return the fallback,
\* else set up the centers.
ClipStart ==
    /\ clip_pc = "start"
    /\ LET xs == BlockXs(clip_page)
       IN  IF xs = <<>>
           THEN /\ clip_out' = FallbackRect(clip_page, clip_cols)
                /\ clip_pc' = "no_text"
                /\ UNCHANGED <<centers, assignments>>
           ELSE /\ centers' = InitCenters(xs, clip_cols)
                /\ assignments' = InitAssignments(xs)
                /\ clip_pc' = IF SingleCenter(xs, clip_cols) THEN "group" ELSE "kmeans"
                /\ UNCHANGED clip_out
    /\ UNCHANGED <<clip_page, clip_cols, rounds>>
    /\ UNCHANGED <<batchVars, docVars, cropVars, bcVars, cartonVars>>

\* Lines 62-72: one assign/recompute round.
ClipRound ==
    /\ clip_pc = "kmeans"
    /\ rounds < KMEANS_ROUNDS
    /\ LET r == KMeansRound(BlockXs(clip_page), centers)
       IN  /\ centers' = r[1]
           /\ assignments' = r[2]
    /\ rounds' = rounds + 1
    /\ clip_pc' = IF rounds + 1 = KMEANS_ROUNDS THEN "group" ELSE "kmeans"
    /\ UNCHANGED <<clip_page, clip_cols, clip_out>>
    /\ UNCHANGED <<batchVars, docVars, cropVars, bcVars, cartonVars>>

\* Lines 74-101: pick the leftmost column and bound it.  The paddings are
\* arguments of the call that are read only here.
ClipFinish ==
    /\ clip_pc = "group"
    /\ \E padding_x \in ClipPaddings, padding_y \in ClipPaddings :
          clip_out' = GroupAndBound(clip_page, clip_cols, centers, assignments,
                                    padding_x, padding_y)
    /\ clip_pc' = IF FirstBlocks(clip_page, centers, assignments) = <<>>
                  THEN "empty_first" ELSE "returned"
    /\ UNCHANGED <<clip_page, clip_cols, centers, assignments, rounds>>
    /\ UNCHANGED <<batchVars, docVars, cropVars, bcVars, cartonVars>>

ClipNext == ClipStart \/ ClipRound \/ ClipFinish
SpecClip == ClipInit /\ [][ClipNext]_vars

-----------------------------------------------------------------------------
(* Label sheets for the SKU pipeline: 300 x 100 pages with three labels    *)
(* across, one text block per label.                                       *)

SkuA1 == <<"C", "5", "0", "0", "3", "9">>
SkuA2 == <<"0", "0", "0", "7">>
SkuA3 == <<"0", "0", "0", "1">>
SkuALetter == <<"C">>
SkuA1Digits == <<"5", "0", "0", "3", "9">>
SkuB1 == <<"C", "4", "0", "0", "0", "8">>
SkuB2 == <<"0", "0", "0", "3">>
SkuB3 == <<"0", "0", "0", "2">>
SkuC1 == <<"D", "1", "2", "3", "4", "5">>
Ean13 == <<"7", "8", "9", "1", "2", "3", "4", "5", "6", "7", "8", "9", "0">>
Short7 == <<"1", "2", "3", "4", "5", "6", "7">>
Total == <<"T", "O", "T", "A", "L">>

LabelBlockText == <<"L", "A", "B", "E", "L">>
ThreeBlocks == << <<10, 10, 90, 70, LabelBlockText>>,
                  <<110, 10, 190, 70, LabelBlockText>>,
                  <<210, 10, 290, 70, LabelBlockText>> >>

\* SKU A "C50039 0007 0001" with a 13-digit barcode; label 2 carries SKU B.
PageA ==
    [width |-> 300, height |-> 100, blocks |-> ThreeBlocks,
     words |-> << <<10, 10, 40, 18, SkuA1>>, <<42, 10, 60, 18, SkuA2>>,
                  <<62, 10, 80, 18, SkuA3>>, <<15, 60, 85, 68, Ean13>>,
                  <<110, 10, 140, 18, SkuB1>>, <<142, 10, 160, 18, SkuB2>>,
                  <<162, 10, 180, 18, SkuB3>> >>]

\* SKU A again, printed "C 50039 0007 0001" lower on a taller label, whose
\* longest number has 7 digits: no barcode anchor.
PageA2 ==
    [width |-> 300, height |-> 100,
     blocks |-> << <<10, 20, 90, 95, LabelBlockText>>,
                   <<110, 20, 190, 95, LabelBlockText>>,
                   <<210, 20, 290, 95, LabelBlockText>> >>,
     words |-> << <<10, 20, 16, 28, SkuALetter>>, <<18, 20, 42, 28, SkuA1Digits>>,
                  <<44, 20, 62, 28, SkuA2>>, <<64, 20, 82, 28, SkuA3>>,
                  <<15, 80, 60, 88, Short7>> >>]

\* SKU B "C40008 0003 0002" with the barcode at the left edge of the page.
PageB ==
    [width |-> 300, height |-> 100, blocks |-> ThreeBlocks,
     words |-> << <<10, 10, 40, 18, SkuB1>>, <<42, 10, 60, 18, SkuB2>>,
                  <<62, 10, 80, 18, SkuB3>>, <<10, 60, 50, 68, Ean13>> >>]

\* SKU "D12345 0007 0001" with a barcode.
PageC ==
    [width |-> 300, height |-> 100, blocks |-> ThreeBlocks,
     words |-> << <<10, 10, 40, 18, SkuC1>>, <<42, 10, 60, 18, SkuA2>>,
                  <<62, 10, 80, 18, SkuA3>>, <<15, 60, 85, 68, Ean13>> >>]

\* No SKU in the leftmost label (label 2 carries SKU A).
PageNoSku ==
    [width |-> 300, height |-> 100, blocks |-> ThreeBlocks,
     words |-> << <<10, 10, 40, 18, Total>>, <<15, 60, 85, 68, Ean13>>,
                  <<110, 10, 140, 18, SkuA1>>, <<142, 10, 160, 18, SkuA2>>,
                  <<162, 10, 180, 18, SkuA3>> >>]

\* A page without text.
PageBlank == [width |-> 300, height |-> 100, blocks |-> <<>>, words |-> <<>>]

SheetPages == {PageA, PageA2, PageB, PageC, PageNoSku}

\* Lines 145-147 and 293-295: the default columns and paddings.
DEFAULT_COLS      == 3
DEFAULT_PADDING_X == 5
DEFAULT_PADDING_Y == 8

-----------------------------------------------------------------------------
(* SpecDoc: process_pdf_bytes on one document, one page per step, for      *)
(* every sequence of at most MaxPages sheet pages.                         *)

DocInit ==
    /\ \/ \E ps \in SeqsUpTo(SheetPages, MaxPages) :
             doc = [name |-> "sheet.pdf", opens |-> TRUE, pages |-> ps]
       \/ doc = [name |-> "broken.pdf", opens |-> FALSE, pages |-> <<>>]
    /\ page_index = 0 /\ seen_skus = {} /\ results = <<>>
    /\ doc_pc = "open"
    /\ BatchOff /\ ClipOff /\ CropOff /\ BcOff /\ CartonOff

\* Lines 159-172: open the document; return [] when that fails or it has
\* no pages.
DocOpen ==
    /\ doc_pc = "open"
    /\ results' = <<>>
    /\ seen_skus' = {}
    /\ page_index' = 0
    /\ doc_pc' = IF NoPages(doc) THEN "returned" ELSE "loop"
    /\ UNCHANGED doc
    /\ UNCHANGED <<batchVars, clipVars, cropVars, bcVars, cartonVars>>

\* Lines 174-253: one pass of the page loop.
DocPage ==
    /\ doc_pc = "loop"
    /\ page_index < Len(doc.pages)
    /\ \E st \in {ProcessPage(doc, page_index,
                              [results |-> results, seen_skus |-> seen_skus],
                              DEFAULT_COLS, DEFAULT_PADDING_X, DEFAULT_PADDING_Y)} :
           /\ results' = st.results
           /\ seen_skus' = st.seen_skus
    /\ page_index' = page_index + 1
    /\ UNCHANGED <<doc, doc_pc>>
    /\ UNCHANGED <<batchVars, clipVars, cropVars, bcVars, cartonVars>>

\* Lines 255-256: the loop is over.
DocReturn ==
    /\ doc_pc = "loop"
    /\ page_index = Len(doc.pages)
    /\ doc_pc' = "returned"
    /\ UNCHANGED <<doc, page_index, seen_skus, results>>
    /\ UNCHANGED <<batchVars, clipVars, cropVars, bcVars, cartonVars>>

DocNext == DocOpen \/ DocPage \/ DocReturn
SpecDoc == DocInit /\ [][DocNext]_vars

-----------------------------------------------------------------------------
(* Spec: the "Process PDFs" button handler of app.py (lines 287-326) on    *)
(* batches of at most MaxFiles uploaded documents.                         *)

BatchDocs ==
    { [name |-> "broken.pdf", opens |-> FALSE, pages |-> <<>>],
      [name |-> "empty.pdf",  opens |-> TRUE,  pages |-> <<>>],
      [name |-> "one.pdf",    opens |-> TRUE,  pages |-> <<PageA, PageB, PageA2>>],
      [name |-> "two.pdf",    opens |-> TRUE,  pages |-> <<PageB, PageA2>>],
      [name |-> "three.pdf",  opens |-> TRUE,  pages |-> <<PageBlank, PageNoSku, PageC>>] }

\* A faulty Extend: the list is replaced by the new labels.
ExtendReplaces(lst, more) == more

\* Line 319: all_labels.extend(labels)
Extend(lst, more) == lst \o more

Init ==
    /\ uploaded_files = <<>>
    /\ file_idx = 0
    /\ all_labels = <<>>
    /\ processed_labels = <<>>
    /\ pc = "idle"
    /\ DocOff /\ ClipOff /\ CropOff /\ BcOff /\ CartonOff

\* Lines 287-291: the user adds a document to the uploader.
Upload ==
    /\ pc = "idle"
    /\ Len(uploaded_files) < MaxFiles
    /\ \E f \in BatchDocs : uploaded_files' = Append(uploaded_files, f)
    /\ UNCHANGED <<file_idx, all_labels, processed_labels, pc>>
    /\ UNCHANGED <<docVars, clipVars, cropVars, bcVars, cartonVars>>

\* Lines 304-308: the button is pressed; without files only a warning is
\* shown.
Click ==
    /\ pc = "idle"
    /\ all_labels' = <<>>
    /\ file_idx' = 0
    /\ pc' = IF uploaded_files = <<>> THEN "done" ELSE "loop"
    /\ UNCHANGED <<uploaded_files, processed_labels>>
    /\ UNCHANGED <<docVars, clipVars, cropVars, bcVars, cartonVars>>

\* Lines 309-319: one pass of the loop over the uploaded files.
ProcessFile ==
    /\ pc = "loop"
    /\ file_idx < Len(uploaded_files)
    /\ LET labels == process_pdf_bytes(uploaded_files[file_idx + 1],
                                       DEFAULT_COLS, DEFAULT_PADDING_X, DEFAULT_PADDING_Y)
       IN  all_labels' = Extend(all_labels, labels)
    /\ file_idx' = file_idx + 1
    /\ UNCHANGED <<uploaded_files, processed_labels, pc>>
    /\ UNCHANGED <<docVars, clipVars, cropVars, bcVars, cartonVars>>

\* Line 321: st.session_state["processed_labels"] = all_labels
Store ==
    /\ pc = "loop"
    /\ file_idx = Len(uploaded_files)
    /\ processed_labels' = all_labels
    /\ pc' = "done"
    /\ UNCHANGED <<uploaded_files, file_idx, all_labels>>
    /\ UNCHANGED <<docVars, clipVars, cropVars, bcVars, cartonVars>>

Next == Upload \/ Click \/ ProcessFile \/ Store
Spec == Init /\ [][Next]_vars

-----------------------------------------------------------------------------
(* SpecDetect: detect_crop_rect, step by step, on rasters with at most     *)
(* MaxInk pixels that are not white.                                       *)

\* All subsets of S with at most k elements.
RECURSIVE SubsetsUpTo(_, _)
SubsetsUpTo(S, k) ==
    IF k = 0 THEN {{}}
    ELSE LET prev == SubsetsUpTo(S, k - 1)
         IN  prev \cup {q \cup {e} : q \in prev, e \in S}

\* Gray 249 is below the default threshold, gray 250 is not.
InkPixels   == {0, 3, 4, 9} \X {0, 2, 7} \X {249, 250}
DetectPages == { [width |-> 6, height |-> 4], [width |-> 5, height |-> 5] }
DetectRatios == {TARGET_RATIO, FInt(1), FInt(3)}
\* The default threshold, and one under which gray 250 is dark as well.
DetectThresholds == {DEFAULT_THRESHOLD, DEFAULT_THRESHOLD + 1}
PageText == <<"P", "I", "C", "K">>

\* A raster gives every pixel one gray value.
OneGrayEach(ink) == \A k, l \in ink : (k[1] = l[1] /\ k[2] = l[2]) => k = l

DetectInit ==
    /\ \E pg \in DetectPages, ink \in SubsetsUpTo(InkPixels, MaxInk) :
          /\ OneGrayEach(ink)
          /\ carton_doc = [name |-> "picking.pdf", opens |-> TRUE, width |-> pg.width,
                           height |-> pg.height, ink |-> ink, texts |-> <<PageText>>]
    /\ \E r \in DetectRatios, t \in DetectThresholds :
          detect_args = [target_ratio |-> r, zoom |-> DEFAULT_ZOOM, threshold |-> t]
    /\ content_box = None /\ adjusted_box = None /\ clamped_box = None
    /\ crop_rect = None /\ groups = <<>> /\ outputs = <<>>
    /\ carton_pc = "call"
    /\ BatchOff /\ DocOff /\ ClipOff /\ CropOff /\ BcOff

\* Lines 49-70: render, mask, and measure the content; without content
\* return the page rectangle.
DetectMeasure ==
    /\ carton_pc = "call"
    /\ LET dark == DarkPixels(carton_doc, detect_args.zoom, detect_args.threshold)
       IN  IF dark = {}
           THEN /\ crop_rect' = PageRect(carton_doc)
                /\ carton_pc' = "no_content"
                /\ UNCHANGED content_box
           ELSE /\ content_box' = ContentBox(dark)
                /\ carton_pc' = "measured"
                /\ UNCHANGED crop_rect
    /\ UNCHANGED <<detect_args, adjusted_box, clamped_box, carton_doc, groups, outputs>>
    /\ UNCHANGED <<batchVars, docVars, clipVars, cropVars, bcVars>>

\* Lines 72-85: the aspect-ratio step; line 73 raises on a box without
\* height.
DetectExpand ==
    /\ carton_pc = "measured"
    /\ LET adjusted == ExpandToRatio(content_box, detect_args.target_ratio)
       IN  IF HasRaised(adjusted)
           THEN /\ carton_pc' = adjusted.raised
                /\ UNCHANGED adjusted_box
           ELSE /\ adjusted_box' = adjusted
                /\ carton_pc' = "expanded"
    /\ UNCHANGED <<detect_args, content_box, clamped_box, carton_doc, crop_rect, groups,
                   outputs>>
    /\ UNCHANGED <<batchVars, docVars, clipVars, cropVars, bcVars>>

\* Lines 87-91.
DetectClamp ==
    /\ carton_pc = "expanded"
    /\ clamped_box' = ClampToImage(adjusted_box, PixWidth(carton_doc, detect_args.zoom),
                                   PixHeight(carton_doc, detect_args.zoom))
    /\ carton_pc' = "clamped"
    /\ UNCHANGED <<detect_args, content_box, adjusted_box, carton_doc, crop_rect, groups,
                   outputs>>
    /\ UNCHANGED <<batchVars, docVars, clipVars, cropVars, bcVars>>

\* Lines 99-110.
DetectReturn ==
    /\ carton_pc = "clamped"
    /\ crop_rect' = ToPdfRect(clamped_box, carton_doc, detect_args.zoom)
    /\ carton_pc' = "returned"
    /\ UNCHANGED <<detect_args, content_box, adjusted_box, clamped_box, carton_doc, groups,
                   outputs>>
    /\ UNCHANGED <<batchVars, docVars, clipVars, cropVars, bcVars>>

DetectNext == DetectMeasure \/ DetectExpand \/ DetectClamp \/ DetectReturn
SpecDetect == DetectInit /\ [][DetectNext]_vars

-----------------------------------------------------------------------------
(* SpecCarton: main of crop_carton_app.py (lines 148-230) on picking       *)
(* documents of at most MaxCartonPages pages.                              *)

\* "REFERENCIA: C400080003XX"
TextRefC4 == RefKeyword \o <<" ", "C", "4", "0", "0", "0", "8", "0", "0", "0", "3", "X", "X">>
\* "PICK\nREFERENCIA:C400080003XX QTY 5": the same reference without space.
TextRefC4Tight ==
    PageText \o <<"\n">> \o RefKeyword
    \o <<"C", "4", "0", "0", "0", "8", "0", "0", "0", "3", "X", "X", " ", "Q", "T", "Y", " ", "5">>
\* "REFERENCIA:\r\n<NBSP>D5-x"
TextRefD5 == RefKeyword \o <<"\r", "\n", "U+00A0", "D", "5", "-", "x">>
\* "REFERENCIA: abc REF: X1": the field holds no [A-Z0-9] token.
TextNoToken == RefKeyword \o <<" ", "a", "b", "c", " ", "R", "E", "F", ":", " ", "X", "1">>
\* "REFERENCIA: UNKNOWN"
TextRefUnknown == RefKeyword \o <<" ">> \o UNKNOWN
CartonTexts == {TextRefC4, TextRefC4Tight, TextRefD5, TextNoToken, PageText, TextRefUnknown}

\* Rasters of a 6 x 4 page: blank, a box with height, and a single row.
CartonRasters == { {}, {<<0, 0, 0>>, <<9, 7, 249>>}, {<<3, 2, 0>>, <<9, 2, 100>>} }

CartonDocs ==
    { [name |-> "picking.pdf", opens |-> TRUE, width |-> 6, height |-> 4,
       ink |-> ink, texts |-> ts] :
         ink \in CartonRasters, ts \in SeqsUpTo(CartonTexts, MaxCartonPages) }
    \cup { [name |-> "broken.pdf", opens |-> FALSE, width |-> 0, height |-> 0,
            ink |-> {}, texts |-> <<>>] }

CartonInit ==
    /\ carton_doc = None /\ detect_args = None
    /\ content_box = None /\ adjusted_box = None /\ clamped_box = None
    /\ crop_rect = None /\ groups = <<>> /\ outputs = <<>>
    /\ carton_pc = "idle"
    /\ BatchOff /\ DocOff /\ ClipOff /\ CropOff /\ BcOff

\* Lines 168-181: a document is uploaded and opened.
CartonUpload ==
    /\ carton_pc = "idle"
    /\ \E d \in CartonDocs :
          /\ carton_doc' = d
          /\ carton_pc' = IF d.opens THEN "loaded" ELSE "open_failed"
    /\ UNCHANGED <<detect_args, content_box, adjusted_box, clamped_box, crop_rect, groups,
                   outputs>>
    /\ UNCHANGED <<batchVars, docVars, clipVars, cropVars, bcVars>>

\* Lines 183-184: detect_crop_rect(doc); an exception ends the run.
CartonDetect ==
    /\ carton_pc = "loaded"
    /\ detect_args' = [target_ratio |-> TARGET_RATIO, zoom |-> DEFAULT_ZOOM,
                       threshold |-> DEFAULT_THRESHOLD]
    /\ LET r == detect_crop_rect(carton_doc, TARGET_RATIO, DEFAULT_ZOOM, DEFAULT_THRESHOLD)
       IN  IF HasRaised(r)
           THEN /\ carton_pc' = r.raised
                /\ UNCHANGED crop_rect
           ELSE /\ crop_rect' = r
                /\ carton_pc' = "detected"
    /\ UNCHANGED <<content_box, adjusted_box, clamped_box, carton_doc, groups, outputs>>
    /\ UNCHANGED <<batchVars, docVars, clipVars, cropVars, bcVars>>

\* Lines 193-198: the groups are read; without any an error is shown.
CartonGroups ==
    /\ carton_pc = "detected"
    /\ groups' = extract_groups(carton_doc)
    /\ carton_pc' = IF extract_groups(carton_doc) = <<>> THEN "no_groups" ELSE "grouped"
    /\ UNCHANGED <<detect_args, content_box, adjusted_box, clamped_box, carton_doc, crop_rect,
                   outputs>>
    /\ UNCHANGED <<batchVars, docVars, clipVars, cropVars, bcVars>>

\* Lines 207-210: "Generate cropped PDFs" is pressed.
CartonGenerate ==
    /\ carton_pc = "grouped"
    /\ outputs' = build_group_pdfs(carton_doc, groups, crop_rect)
    /\ carton_pc' = "built"
    /\ UNCHANGED <<detect_args, content_box, adjusted_box, clamped_box, carton_doc, crop_rect,
                   groups>>
    /\ UNCHANGED <<batchVars, docVars, clipVars, cropVars, bcVars>>

CartonNext == CartonUpload \/ CartonDetect \/ CartonGroups \/ CartonGenerate
SpecCarton == CartonInit /\ [][CartonNext]_vars

-----------------------------------------------------------------------------
(* Claims on find_barcode_word_bbox (SpecBarcode).                         *)

DigitCount(text) == Cardinality({k \in 1..Len(text) : text[k] \in Digits})

MaxDigitCount(ws) ==
    IF ws = <<>> THEN 0
    ELSE LET counts == {DigitCount(ws[i][5]) : i \in 1..Len(ws)}
         IN  CHOOSE m \in counts : \A c \in counts : c <= m

\* C5: find_barcode_word_bbox returns the first word whose digit count is
\* the maximum over all words, and returns None exactly when that maximum
\* is below 8.
C5_FirstLongestOrAbsent ==
    bc_pc = "returned" =>
        LET mx == MaxDigitCount(words)
        IN  IF mx < 8
            THEN barcode_info = None
            ELSE \E i \in 1..Len(words) :
                    /\ DigitCount(words[i][5]) = mx
                    /\ \A j \in 1..(i - 1) : DigitCount(words[j][5]) < mx
                    /\ SubSeq(barcode_info, 1, 5) = words[i]
                    /\ Len(barcode_info[6]) = mx

\* C5 witness: two different words tie at 8 digits, a 7-digit word is also
\* present, and the earlier of the two tied words was returned.
C5_Witness ==
    /\ bc_pc = "returned"
    /\ Len(words) = 3
    /\ MaxDigitCount(words) = 8
    /\ \E i, j, l \in 1..3 :
          /\ i < j
          /\ DigitCount(words[i][5]) = 8 /\ DigitCount(words[j][5]) = 8
          /\ words[i] # words[j]
          /\ DigitCount(words[l][5]) = 7
          /\ SubSeq(barcode_info, 1, 5) = words[i]

-----------------------------------------------------------------------------
(* Claims on the barcode-centred crop (SpecCrop).                          *)

InsideX(r, pg) == FLe(FInt(0), r.x0) /\ FLe(r.x0, r.x1) /\ FLe(r.x1, FInt(pg.width))
InsideY(r, pg) == FLe(FInt(0), r.y0) /\ FLe(r.y0, r.y1) /\ FLe(r.y1, FInt(pg.height))
RefSized(r) == RectWidth(r) = REF_LABEL_WIDTH /\ RectHeight(r) = REF_LABEL_HEIGHT

\* C4 as stated: for every anchor, label top and page size the crop lies
\* inside the page and is exactly REF_LABEL_WIDTH x REF_LABEL_HEIGHT.
C4_InsidePageAnySize ==
    crop_pc = "returned" =>
        /\ InsideX(final_clip, crop_in.page)
        /\ InsideY(final_clip, crop_in.page)
        /\ RefSized(final_clip)

\* C4 amended: the crop is always exactly REF_LABEL_WIDTH x REF_LABEL_HEIGHT;
\* it lies inside the page horizontally when the page is at least
\* REF_LABEL_WIDTH wide, and vertically when it is at least REF_LABEL_HEIGHT
\* high.
C4_InsidePageThatFits ==
    crop_pc = "returned" =>
        /\ RefSized(final_clip)
        /\ FLe(REF_LABEL_WIDTH, FInt(crop_in.page.width)) => InsideX(final_clip, crop_in.page)
        /\ FLe(REF_LABEL_HEIGHT, FInt(crop_in.page.height)) => InsideY(final_clip, crop_in.page)

\* C4 witness: on a page that has room, a window that started left of the
\* page and below its bottom was shifted onto it.
C4_Witness ==
    /\ crop_pc = "returned"
    /\ FLe(REF_LABEL_WIDTH, FInt(crop_in.page.width))
    /\ FLe(REF_LABEL_HEIGHT, FInt(crop_in.page.height))
    /\ FLt(FDiv(FInt(crop_in.binfo[1] + crop_in.binfo[3]), FInt(2)), FDiv(REF_LABEL_WIDTH, FInt(2)))
    /\ FLt(FInt(crop_in.page.height), FAdd(crop_in.label_rect.y0, REF_LABEL_HEIGHT))
    /\ final_clip.x0 = FInt(0)
    /\ final_clip.y1 = FInt(crop_in.page.height)

-----------------------------------------------------------------------------
(* Claims on compute_first_label_clip (SpecClip).                          *)

ClipReturned == clip_pc \in {"no_text", "empty_first", "returned"}

\* C8: the rectangle compute_first_label_clip returns is a valid Rect
\* (x0 <= x1, y0 <= y1) that lies within [0, pageWidth] x [0, pageHeight].
C8_ClipInsidePage ==
    ClipReturned => InsideX(clip_out, clip_page) /\ InsideY(clip_out, clip_page)

Ascending(cs) == \A j \in 1..(Len(cs) - 1) : FLt(cs[j], cs[j + 1])

\* The column with the smallest center has a member, and the block with
\* the smallest x-center is one of its members.
LeftmostHoldsMin ==
    LET xs    == BlockXs(clip_page)
        first == FirstIdx(centers)
    IN  \E i \in 1..Len(xs) : assignments[i] = first /\ xs[i] = FSeqMin(xs)

\* C10: with at least one text block, the centers are in ascending index
\* order at every round, the column with the smallest center has a member
\* and holds the block with the minimum x-center after every round and
\* when the clustering is over, and the empty-leftmost-column fallback of
\* lines 86-88 is never taken.
C10_LeftmostNeverEmpty ==
    /\ clip_pc \in {"kmeans", "group", "returned", "empty_first"} => Ascending(centers)
    /\ (clip_pc = "group" \/ (clip_pc = "kmeans" /\ rounds >= 1)) => LeftmostHoldsMin
    /\ clip_pc # "empty_first"

\* C10 witness: ten rounds ran with three centers, some column other than
\* the leftmost ended without members, and the tight rectangle was returned.
C10_Witness ==
    /\ clip_pc = "returned"
    /\ rounds = 10
    /\ Len(centers) = 3
    /\ \E j \in 1..2 : \A i \in 1..Len(assignments) : assignments[i] # j
    /\ LeftmostHoldsMin

-----------------------------------------------------------------------------
(* Claims on process_pdf_bytes (SpecDoc).                                  *)

\* The identifier of every page of a document, None where there is none.
PageIds(d) ==
    MkSeq([i \in 1..Len(d.pages) |->
              PageSku(d.pages[i], DEFAULT_COLS, DEFAULT_PADDING_X, DEFAULT_PADDING_Y)],
          Len(d.pages))

\* The page indexes at which an identifier of ids occurs for the first time.
FirstPages(ids) ==
    {p \in 0..(Len(ids) - 1) :
        ids[p + 1] # None /\ \A q \in 0..(p - 1) : ids[q + 1] # ids[p + 1]}

\* The crop the code computes for a page.
PageClip(page) ==
    FinalClip(page, compute_first_label_clip(page, DEFAULT_COLS, DEFAULT_PADDING_X,
                                             DEFAULT_PADDING_Y))

\* C1: process_pdf_bytes returns exactly one entry per distinct identifier
\* of the document's pages, in the order of the identifiers' first
\* occurrence, each built from the lowest page index bearing it.
C1_FirstOccurrenceOrder ==
    doc_pc = "returned" =>
        LET ids    == PageIds(doc)
            firsts == FirstPages(ids)
        IN  /\ Len(results) = Cardinality(firsts)
            /\ \A i \in 1..Len(results) :
                  LET p == results[i].pdf_bytes.src_page
                  IN  /\ p \in firsts
                      /\ results[i].sku = ids[p + 1]
                      /\ results[i].pdf_bytes.clip = PageClip(doc.pages[p + 1])
            /\ \A i, j \in 1..Len(results) :
                  i < j => results[i].pdf_bytes.src_page < results[j].pdf_bytes.src_page

\* C1 witness: an identifier occurs on two different pages with another
\* identifier between them; two entries were returned, the first from the
\* earlier of the two pages.
C1_Witness ==
    /\ doc_pc = "returned"
    /\ Len(results) = 2
    /\ LET ids == PageIds(doc)
       IN  \E p, r, q \in 1..Len(doc.pages) :
              /\ p < r /\ r < q
              /\ ids[p] # None /\ ids[p] = ids[q]
              /\ ids[r] # None /\ ids[r] # ids[p]
              /\ doc.pages[p] # doc.pages[q]
              /\ results[1].sku = ids[p]
              /\ results[1].pdf_bytes.src_page = p - 1
              /\ results[2].sku = ids[r]

-----------------------------------------------------------------------------
(* Claims on the batch run (Spec).                                         *)

\* C2: after a batch is processed, no identifier appears in more than one
\* entry of processed_labels.
C2_UniqueAcrossBatch ==
    pc = "done" =>
        \A i, j \in 1..Len(processed_labels) :
            i # j => processed_labels[i].sku # processed_labels[j].sku

\* A document that opened and has pages.
Succeeded(f) == f.opens /\ Len(f.pages) > 0

\* The labels of the documents that succeeded, in upload order.
RECURSIVE LabelsOfSucceeded(_)
LabelsOfSucceeded(files) ==
    IF files = <<>> THEN <<>>
    ELSE (IF Succeeded(files[1])
          THEN process_pdf_bytes(files[1], DEFAULT_COLS, DEFAULT_PADDING_X, DEFAULT_PADDING_Y)
          ELSE <<>>)
         \o LabelsOfSucceeded(Tail(files))

\* C6: a document that fails to open or has no pages contributes no labels
\* and does not abort the batch: the run ends with the concatenation, in
\* upload order, of the labels of the documents that succeeded.
C6_FailedDocumentsSkipped ==
    /\ pc = "done" =>
          /\ processed_labels = LabelsOfSucceeded(uploaded_files)
          /\ \A i \in 1..Len(processed_labels) :
                \E k \in 1..Len(uploaded_files) :
                    /\ Succeeded(uploaded_files[k])
                    /\ uploaded_files[k].name = processed_labels[i].original_name
    /\ pc = "loop" => all_labels = LabelsOfSucceeded(SubSeq(uploaded_files, 1, file_idx))

\* C6 witness: a document that does not open was uploaded between two that
\* succeed, and the run ended with labels of both.
C6_Witness ==
    /\ pc = "done"
    /\ Len(uploaded_files) = 3
    /\ ~uploaded_files[2].opens
    /\ Succeeded(uploaded_files[1]) /\ Succeeded(uploaded_files[3])
    /\ uploaded_files[1].name # uploaded_files[3].name
    /\ \E i, j \in 1..Len(processed_labels) :
          /\ i < j
          /\ processed_labels[i].original_name = uploaded_files[1].name
          /\ processed_labels[j].original_name = uploaded_files[3].name

HasRefSize(label) ==
    /\ label.pdf_bytes.width = REF_LABEL_WIDTH
    /\ label.pdf_bytes.height = REF_LABEL_HEIGHT

\* C7: every single-page output of the batch, built or stored, has the page
\* size REF_LABEL_WIDTH x REF_LABEL_HEIGHT.
C7_ReferenceSizeEverywhere ==
    /\ \A i \in 1..Len(all_labels) : HasRefSize(all_labels[i])
    /\ \A i \in 1..Len(processed_labels) : HasRefSize(processed_labels[i])

\* The page a label of the batch was cut from.
LabelPage(label) ==
    LET f == CHOOSE g \in BatchDocs : g.name = label.original_name
    IN  f.pages[label.pdf_bytes.src_page + 1]

\* No barcode anchor is found on the page: the crop is the label region.
NoAnchor(page) ==
    find_barcode_word_bbox(
        page, compute_first_label_clip(page, DEFAULT_COLS, DEFAULT_PADDING_X,
                                       DEFAULT_PADDING_Y)) = None

\* C7 witness: the stored labels come from two documents, one cut around a
\* barcode anchor and one from a page without anchor, whose crop has
\* another size than the reference.
C7_Witness ==
    /\ pc = "done"
    /\ \E i, j \in 1..Len(processed_labels) :
          /\ processed_labels[i].original_name # processed_labels[j].original_name
          /\ ~NoAnchor(LabelPage(processed_labels[i]))
          /\ NoAnchor(LabelPage(processed_labels[j]))
          /\ ~RefSized(processed_labels[j].pdf_bytes.clip)

-----------------------------------------------------------------------------
(* Claims on detect_crop_rect (SpecDetect).                                *)

\* Box a contains box b.
Contains(a, b) ==
    /\ FLe(a.x0, b.x0) /\ FLe(b.x1, a.x1)
    /\ FLe(a.y0, b.y0) /\ FLe(b.y1, a.y1)

\* Equal up to the rounding of the float operations: within 2^-30.
Close(a, b) == FLe(FAbs(FSub(a, b)), FDiv(FInt(1), FInt(1073741824)))

\* Exactly one dimension of box b was set, to the size the ratio asks for
\* and about the center of b, giving box a.
GrownAboutCenter(a, b, ratio) ==
    IF FLt(FMul(ratio, RectHeight(b)), RectWidth(b))
    THEN /\ a.x0 = b.x0 /\ a.x1 = b.x1
         /\ Close(FMul(RectHeight(a), ratio), RectWidth(b))
         /\ Close(FAdd(a.y0, a.y1), FAdd(b.y0, b.y1))
    ELSE /\ a.y0 = b.y0 /\ a.y1 = b.y1
         /\ Close(RectWidth(a), FMul(RectHeight(b), ratio))
         /\ Close(FAdd(a.x0, a.x1), FAdd(b.x0, b.x1))

InsideRaster(box) ==
    /\ FLe(FInt(0), box.x0) /\ FLe(box.x0, box.x1)
    /\ FLe(box.x1, FInt(PixWidth(carton_doc, detect_args.zoom)))
    /\ FLe(FInt(0), box.y0) /\ FLe(box.y0, box.y1)
    /\ FLe(box.y1, FInt(PixHeight(carton_doc, detect_args.zoom)))

\* The aspect-ratio step is over: the content box was measured and the
\* call has moved past line 85 or left at line 73.
RatioStepTaken == carton_pc \in {"ZeroDivisionError", "expanded", "clamped", "returned"}

\* C9: for every content bounding box and target ratio the aspect-ratio
\* step yields an adjusted box that contains the content box, with exactly
\* one dimension grown about the center of the content box, and after
\* clamping the box lies within the raster.
C9_ExpandsEveryBox ==
    /\ RatioStepTaken =>
          /\ adjusted_box # None
          /\ Contains(adjusted_box, content_box)
          /\ GrownAboutCenter(adjusted_box, content_box, detect_args.target_ratio)
    /\ carton_pc \in {"clamped", "returned"} => InsideRaster(clamped_box)

\* What holds of the same step on the content boxes that have height.
C9_ExpandsBoxWithHeight ==
    /\ (RatioStepTaken /\ ~RatioRaises(content_box)) =>
          /\ adjusted_box # None
          /\ Contains(adjusted_box, content_box)
          /\ GrownAboutCenter(adjusted_box, content_box, detect_args.target_ratio)
    /\ carton_pc \in {"clamped", "returned"} => InsideRaster(clamped_box)

\* The dark pixels of the raster lie in a single row, or in a single column.
DarkOf == DarkPixels(carton_doc, detect_args.zoom, detect_args.threshold)
SingleRow    == DarkOf # {} /\ Cardinality({px[2] : px \in DarkOf}) = 1
SingleColumn == DarkOf # {} /\ Cardinality({px[1] : px \in DarkOf}) = 1

\* The call of detect_crop_rect is over, by a return or by an exception.
DetectOver == carton_pc \in {"no_content", "returned", "ZeroDivisionError"}

\* C11: detect_crop_rect returns a crop rectangle for every raster and
\* threshold: no call ends with an exception, and a call that is over,
\* also on a raster whose dark pixels lie in a single row or a single
\* column, has returned a rectangle.
C11_ReturnsForEveryRaster ==
    DetectOver =>
        /\ carton_pc # "ZeroDivisionError"
        /\ crop_rect # None
        /\ crop_rect = detect_crop_rect(carton_doc, detect_args.target_ratio,
                                        detect_args.zoom, detect_args.threshold)

\* What holds instead: the call raises exactly on the rasters whose dark
\* pixels lie in a single row, and returns a rectangle on all others, a
\* single column of several pixels included.
C11_RaisesExactlyOnSingleRow ==
    DetectOver =>
        /\ carton_pc = "ZeroDivisionError" <=> SingleRow
        /\ carton_pc # "ZeroDivisionError" => crop_rect # None

-----------------------------------------------------------------------------
(* Claims on main of crop_carton_app.py (SpecCarton).                      *)

\* The page indexes of the document whose text has no REFERENCIA match.
NoMatchPages == {i \in 0..(Len(carton_doc.texts) - 1) : RefSearch(carton_doc.texts[i + 1]) = 0}

InSeq(x, sq) == \E k \in 1..Len(sq) : sq[k] = x

\* C3 (REFERENCIA pipeline): what extract_reference reports for a page
\* without match differs from what it reports for every page with a match,
\* and a page without match is in no group and in no output file.
C3_NoMatchPageSkipped ==
    /\ carton_pc \in {"grouped", "built"} =>
          /\ \A i \in NoMatchPages, j \in 0..(Len(carton_doc.texts) - 1) :
                j \notin NoMatchPages =>
                    extract_reference(carton_doc.texts[i + 1])
                        # extract_reference(carton_doc.texts[j + 1])
          /\ \A i \in NoMatchPages, k \in 1..Len(groups) : ~InSeq(i, groups[k][2])
    /\ carton_pc = "built" =>
          \A i \in NoMatchPages, k \in 1..Len(outputs) :
              \A l \in 1..Len(outputs[k][2][2]) : outputs[k][2][2][l].src_page # i

\* C3 (SKU pipeline): every entry process_pdf_bytes returns comes from a
\* page whose label text holds an identifier.
C3_SkuPageWithoutMatchSkipped ==
    \A i \in 1..Len(results) :
        PageSku(doc.pages[results[i].pdf_bytes.src_page + 1],
                DEFAULT_COLS, DEFAULT_PADDING_X, DEFAULT_PADDING_Y) # None

=============================================================================
